---- MODULE Spec2Model ----
(***************************************************************************)
(* A model of the perf record decoder of src/src/perf_event.rs:            *)
(* Regs::get, DsoKey::detect and RawEvent::parse; and of the ETW schema    *)
(* decoder of src/etw-reader/src/etw_types.rs: TraceEventInfoRaw::property *)
(* and property_map_info.                                                  *)
(*                                                                         *)
(* Representation.                                                         *)
(*   - a byte is a number in 0..255, a buffer a sequence of bytes;         *)
(*   - a decoded integer (u16/u32/u64/i32) is the sequence of its base-256 *)
(*     digits, most significant first, so that a 64-bit value never has to *)
(*     fit a model integer and the byte order of a read is observable;     *)
(*   - a String is the sequence of its code points;                        *)
(*   - Option<T> is <<>> (None) or <<x>> (Some(x));                        *)
(*   - a u64 register mask is the set of its set bit positions (0..63);    *)
(*   - the small bit masks (sample_type, read_format, misc) are numbers.   *)
(* The numeric values of the PERF_* names are those of the Linux perf ABI, *)
(* which perf_event.rs imports from crate::perf_event_raw.                 *)
(***************************************************************************)
EXTENDS Integers, Sequences, FiniteSets, TLC

VARIABLES
    overflowChecks, \* the build: TRUE when arithmetic overflow panics (debug), FALSE when it wraps
    endian,         \* the ByteOrder type parameter T of parse: "LE" or "BE"
    getPolicy,      \* what RawData::get does with an out-of-range subrange
    op,             \* the entry point this run calls: "parse", "get", "detect", "property" or "map_info"
    pc,             \* "call" before the call, "done" after it
    rec,            \* RawEvent { kind, misc, data }
    params,         \* sample_type, read_format, regs_count, sample_regs_user, sample_id_all
    gen,            \* how the record's payload was laid out by its writer
    event,          \* what parse returned, or that it panicked
    reads,          \* the reads parse made: the field and the cursor position of each
    endPos,         \* the cursor position when parse returned
    first,          \* what the first of two calls of parse on one record gave
    regs,           \* Regs { regs_mask, raw_regs }
    register,       \* the argument of Regs::get
    got,            \* what Regs::get returned
    path,           \* the path argument of DsoKey::detect
    pmisc,          \* the misc argument of DsoKey::detect
    key,            \* what DsoKey::detect returned
    nameKey,        \* what DsoKey::detect returned for the name of that key
    info,           \* TraceEventInfoRaw { info }: the bytes of the TRACE_EVENT_INFO
    propIndex,      \* the argument `index` of property and of property_map_info
    os,             \* what TdhGetEventMapInformation answers, and what follows info in memory
    prop,           \* what property or property_map_info returned, or where it panicked
    trace           \* the descriptor reads and the OS queries of the call, in order

vars == <<overflowChecks, endian, getPolicy, op, pc, rec, params, gen, event, reads,
          endPos, regs, register, got, path, pmisc, key, nameKey,
          info, propIndex, os, prop, trace, first>>

\* ------------------------------------------------------------------ bounds

\* The longest free part of a path given to DsoKey::detect.
MaxBody == 2

\* The most flags set at once in a sample_type (the few full ones aside).
MaxFlags == 2

\* The largest count a SAMPLE payload declares: READ and BRANCH_STACK nr, the
\* callchain length, the RAW and AUX sizes.
MaxCount == 2

\* The longest run of bytes after pid and tid in a COMM record.
MaxName == 3

\* The largest register index asked of Regs::get.
MaxRegister == 65

\* The most properties a TRACE_EVENT_INFO declares.
MaxProps == 2

\* The most entries a value map holds.
MaxEntries == 2

\* The most 64-bit words a register view holds (regs_count).
MaxRegsCount == 3

\* ------------------------------------------------------------ perf ABI names

PERF_SAMPLE_IP == 1
PERF_SAMPLE_TID == 2
PERF_SAMPLE_TIME == 4
PERF_SAMPLE_ADDR == 8
PERF_SAMPLE_READ == 16
PERF_SAMPLE_CALLCHAIN == 32
PERF_SAMPLE_ID == 64
PERF_SAMPLE_CPU == 128
PERF_SAMPLE_PERIOD == 256
PERF_SAMPLE_STREAM_ID == 512
PERF_SAMPLE_RAW == 1024
PERF_SAMPLE_BRANCH_STACK == 2048
PERF_SAMPLE_REGS_USER == 4096
PERF_SAMPLE_STACK_USER == 8192
PERF_SAMPLE_WEIGHT == 16384
PERF_SAMPLE_DATA_SRC == 32768
PERF_SAMPLE_IDENTIFIER == 65536
PERF_SAMPLE_TRANSACTION == 131072
PERF_SAMPLE_REGS_INTR == 262144
PERF_SAMPLE_PHYS_ADDR == 524288
PERF_SAMPLE_AUX == 1048576
PERF_SAMPLE_DATA_PAGE_SIZE == 4194304
PERF_SAMPLE_CODE_PAGE_SIZE == 8388608

\* a bit of branch_sample_type, which parse tests on sample_type
PERF_SAMPLE_BRANCH_HW_INDEX == 131072

PERF_FORMAT_TOTAL_TIME_ENABLED == 1
PERF_FORMAT_TOTAL_TIME_RUNNING == 2
PERF_FORMAT_ID == 4
PERF_FORMAT_GROUP == 8

PERF_RECORD_MMAP == 1
PERF_RECORD_LOST == 2
PERF_RECORD_COMM == 3
PERF_RECORD_EXIT == 4
PERF_RECORD_THROTTLE == 5
PERF_RECORD_UNTHROTTLE == 6
PERF_RECORD_FORK == 7
PERF_RECORD_SAMPLE == 9
PERF_RECORD_MMAP2 == 10
PERF_RECORD_SWITCH == 14

PERF_RECORD_MISC_MMAP_DATA == 8192
PERF_RECORD_MISC_COMM_EXEC == 8192
PERF_RECORD_MISC_SWITCH_OUT == 8192
PERF_RECORD_MISC_MMAP_BUILD_ID == 16384
PERF_RECORD_MISC_SWITCH_OUT_PREEMPT == 16384
PERF_RECORD_MISC_CPUMODE_MASK == 7
PERF_RECORD_MISC_KERNEL == 1
PERF_RECORD_MISC_USER == 2
PERF_RECORD_MISC_GUEST_KERNEL == 4
PERF_RECORD_MISC_GUEST_USER == 5

\* ----------------------------------------------------------------- helpers

None == <<>>
Some(x) == <<x>>

\* the outcomes of a call: not made yet, returned v, or panicked (no value returned)
NotRun == [tag |-> "NotRun"]
Ret(v) == [tag |-> "Ret", val |-> v]
Panic == [tag |-> "Panic"]

\* a & b on non-negative numbers
RECURSIVE BitAnd(_, _)
BitAnd(a, b) ==
    IF a = 0 \/ b = 0 THEN 0
    ELSE (a % 2) * (b % 2) + 2 * BitAnd(a \div 2, b \div 2)

\* a & flag != 0 for a flag of one bit
HasBit(a, flag) == (a \div flag) % 2 = 1

\* all sequences over S of length at most n
RECURSIVE SeqsUpTo(_, _)
SeqsUpTo(S, n) ==
    IF n = 0 THEN {<<>>}
    ELSE LET shorter == SeqsUpTo(S, n - 1)
         IN  shorter \cup {Append(s, x) : s \in {t \in shorter : Len(t) = n - 1}, x \in S}

\* slice.starts_with(prefix)
StartsWith(s, prefix) ==
    /\ Len(s) >= Len(prefix)
    /\ SubSeq(s, 1, Len(prefix)) = prefix

\* slice.strip_suffix(suffix): None, or Some(the slice without the suffix)
StripSuffix(s, suffix) ==
    IF /\ Len(s) >= Len(suffix)
       /\ SubSeq(s, Len(s) - Len(suffix) + 1, Len(s)) = suffix
    THEN Some(SubSeq(s, 1, Len(s) - Len(suffix)))
    ELSE None

\* slice.iter().rposition(|b| *b == x): 0 for None, else the last 1-based index
RPosition(s, x) ==
    LET hits == {i \in 1..Len(s) : s[i] = x}
    IN  IF hits = {} THEN 0 ELSE CHOOSE i \in hits : \A j \in hits : j <= i

\* slice.iter().position(|b| *b == x): 0 for None, else the first 1-based index
Position(s, x) ==
    LET hits == {i \in 1..Len(s) : s[i] = x}
    IN  IF hits = {} THEN 0 ELSE CHOOSE i \in hits : \A j \in hits : i <= j

\* --------------------------------------------------- String::from_utf8_lossy

Utf8CharWidth(b) ==
    IF b < 128 THEN 1
    ELSE IF b >= 194 /\ b <= 223 THEN 2
    ELSE IF b >= 224 /\ b <= 239 THEN 3
    ELSE IF b >= 240 /\ b <= 244 THEN 4
    ELSE 0

SafeGet(bs, i) == IF i <= Len(bs) THEN bs[i] ELSE 0

IsCont(b) == b >= 128 /\ b <= 191

\* the second byte of a three-byte sequence that starts with b
Second3Ok(b, c) ==
    \/ b = 224 /\ c >= 160 /\ c <= 191
    \/ b >= 225 /\ b <= 236 /\ IsCont(c)
    \/ b = 237 /\ c >= 128 /\ c <= 159
    \/ b >= 238 /\ b <= 239 /\ IsCont(c)

\* the second byte of a four-byte sequence that starts with b
Second4Ok(b, c) ==
    \/ b = 240 /\ c >= 144 /\ c <= 191
    \/ b >= 241 /\ b <= 243 /\ IsCont(c)
    \/ b = 244 /\ c >= 128 /\ c <= 143

\* The character decoded at index i and the bytes it takes: a valid sequence
\* gives its code point, a maximal invalid run gives one U+FFFD.
DecodeAt(bs, i) ==
    LET b  == bs[i]
        c1 == SafeGet(bs, i + 1)
        c2 == SafeGet(bs, i + 2)
        c3 == SafeGet(bs, i + 3)
        w  == Utf8CharWidth(b)
        bad(n) == [cp |-> 65533, n |-> n]
    IN  CASE w = 1 -> [cp |-> b, n |-> 1]
          [] w = 2 -> IF IsCont(c1)
                      THEN [cp |-> (b - 192) * 64 + (c1 - 128), n |-> 2]
                      ELSE bad(1)
          [] w = 3 -> IF ~Second3Ok(b, c1) THEN bad(1)
                      ELSE IF ~IsCont(c2) THEN bad(2)
                      ELSE [cp |-> (b - 224) * 4096 + (c1 - 128) * 64 + (c2 - 128), n |-> 3]
          [] w = 4 -> IF ~Second4Ok(b, c1) THEN bad(1)
                      ELSE IF ~IsCont(c2) THEN bad(2)
                      ELSE IF ~IsCont(c3) THEN bad(3)
                      ELSE [cp |-> (b - 240) * 262144 + (c1 - 128) * 4096
                                   + (c2 - 128) * 64 + (c3 - 128), n |-> 4]
          [] OTHER -> bad(1)

RECURSIVE LossyFrom(_, _)
LossyFrom(bs, i) ==
    IF i > Len(bs) THEN <<>>
    ELSE LET d == DecodeAt(bs, i)
         IN  <<d.cp>> \o LossyFrom(bs, i + d.n)

FromUtf8Lossy(bs) == LossyFrom(bs, 1)

\* ------------------------------------------------------------------- DsoKey

Kernel == [tag |-> "Kernel"]
GuestKernel == [tag |-> "GuestKernel"]
Vdso32 == [tag |-> "Vdso32"]
VdsoX32 == [tag |-> "VdsoX32"]
Vdso64 == [tag |-> "Vdso64"]
Vsyscall == [tag |-> "Vsyscall"]
KernelModule(name) == [tag |-> "KernelModule", name |-> name]
User(name, fullPath) == [tag |-> "User", name |-> name, path |-> fullPath]

B_anon == <<47, 47, 97, 110, 111, 110>>                       \* b"//anon"
B_stack == <<91, 115, 116, 97, 99, 107, 93>>                  \* b"[stack]"
B_heap == <<91, 104, 101, 97, 112, 93>>                       \* b"[heap]"
B_vvar == <<91, 118, 118, 97, 114, 93>>                       \* b"[vvar]"
B_kernel_kallsyms ==                                          \* b"[kernel.kallsyms]"
    <<91, 107, 101, 114, 110, 101, 108, 46, 107, 97, 108, 108, 115, 121, 109, 115, 93>>
B_guest_kernel_kallsyms ==                                    \* b"[guest.kernel.kallsyms"
    <<91, 103, 117, 101, 115, 116, 46, 107, 101, 114, 110, 101, 108, 46,
      107, 97, 108, 108, 115, 121, 109, 115>>
B_vdso32 == <<91, 118, 100, 115, 111, 51, 50, 93>>            \* b"[vdso32]"
B_vdsox32 == <<91, 118, 100, 115, 111, 120, 51, 50, 93>>      \* b"[vdsox32]"
B_vdso == <<91, 118, 100, 115, 111, 93>>                      \* b"[vdso]"
B_vsyscall == <<91, 118, 115, 121, 115, 99, 97, 108, 108, 93>> \* b"[vsyscall]"
B_bracket == <<91>>                                           \* b"["
B_ko == <<46, 107, 111>>                                      \* b".ko"

B_kernel_name == B_kernel_kallsyms                            \* "[kernel.kallsyms]"
B_guest_kernel_name == B_guest_kernel_kallsyms \o <<93>>       \* "[guest.kernel.kallsyms]"

\* DsoKey::name: the code points of the name
Name_GuestAsKernel(k) ==
    CASE k.tag = "Kernel" -> B_kernel_name
      [] k.tag = "GuestKernel" -> B_kernel_name
      [] k.tag = "Vdso32" -> B_vdso32
      [] k.tag = "VdsoX32" -> B_vdsox32
      [] k.tag = "Vdso64" -> B_vdso
      [] k.tag = "Vsyscall" -> B_vsyscall
      [] k.tag = "KernelModule" -> k.name
      [] k.tag = "User" -> k.name
Name(k) ==
    CASE k.tag = "Kernel" -> B_kernel_name
      [] k.tag = "GuestKernel" -> B_guest_kernel_name
      [] k.tag = "Vdso32" -> B_vdso32
      [] k.tag = "VdsoX32" -> B_vdsox32
      [] k.tag = "Vdso64" -> B_vdso
      [] k.tag = "Vsyscall" -> B_vsyscall
      [] k.tag = "KernelModule" -> k.name
      [] k.tag = "User" -> k.name

\* the UTF-8 bytes of one code point
Utf8Char(cp) ==
    IF cp < 128 THEN <<cp>>
    ELSE IF cp < 2048 THEN <<192 + (cp \div 64), 128 + (cp % 64)>>
    ELSE IF cp < 65536
    THEN <<224 + (cp \div 4096), 128 + ((cp \div 64) % 64), 128 + (cp % 64)>>
    ELSE <<240 + (cp \div 262144), 128 + ((cp \div 4096) % 64),
           128 + ((cp \div 64) % 64), 128 + (cp % 64)>>

\* str::as_bytes: the UTF-8 bytes of a string
RECURSIVE AsBytes(_)
AsBytes(str) ==
    IF str = <<>> THEN <<>> ELSE Utf8Char(Head(str)) \o AsBytes(Tail(str))

\* the paths that name no DSO (the first test of detect)
IsNotDso_NoVvar(p) == p = B_anon \/ p = B_stack \/ p = B_heap
IsNotDso(p) == p = B_anon \/ p = B_stack \/ p = B_heap \/ p = B_vvar

\* the key of a path that starts with [kernel.kallsyms]
KallsymsKey_GuestUser(cpumode) ==
    IF cpumode = PERF_RECORD_MISC_GUEST_USER THEN GuestKernel ELSE Kernel
KallsymsKey(cpumode) ==
    IF cpumode = PERF_RECORD_MISC_GUEST_KERNEL THEN GuestKernel ELSE Kernel

\* the guard of the bracket-prefix rule
IsBracketModule_AfterSlash(cpumode, p) ==
    /\ cpumode = PERF_RECORD_MISC_KERNEL \/ cpumode = PERF_RECORD_MISC_GUEST_KERNEL
    /\ StartsWith(SubSeq(p, RPosition(p, 47) + 1, Len(p)), B_bracket)
IsBracketModule(cpumode, p) ==
    /\ cpumode = PERF_RECORD_MISC_KERNEL \/ cpumode = PERF_RECORD_MISC_GUEST_KERNEL
    /\ StartsWith(p, B_bracket)

\* the bytes after the last '/', or the whole path
Filename_WholePath(p) == p
Filename(p) ==
    LET final_slash_pos == RPosition(p, 47)
    IN  IF final_slash_pos # 0 THEN SubSeq(p, final_slash_pos + 1, Len(p)) ELSE p

\* the match on (cpumode, filename.strip_suffix(b".ko")) that ends detect
ByCpumode_UserOnly(cpumode, p) ==
    LET filename == Filename(p)
        kmod == StripSuffix(filename, B_ko)
    IN  IF /\ cpumode = PERF_RECORD_MISC_KERNEL \/ cpumode = PERF_RECORD_MISC_GUEST_KERNEL
           /\ kmod # None
        THEN Some(KernelModule(<<91>> \o FromUtf8Lossy(kmod[1]) \o <<93>>))
        ELSE IF cpumode = PERF_RECORD_MISC_KERNEL THEN Some(Kernel)
        ELSE IF cpumode = PERF_RECORD_MISC_GUEST_KERNEL THEN Some(GuestKernel)
        ELSE IF cpumode = PERF_RECORD_MISC_USER
        THEN Some(User(FromUtf8Lossy(filename), p))
        ELSE None
ByCpumode(cpumode, p) ==
    LET filename == Filename(p)
        kmod == StripSuffix(filename, B_ko)
    IN  IF /\ cpumode = PERF_RECORD_MISC_KERNEL \/ cpumode = PERF_RECORD_MISC_GUEST_KERNEL
           /\ kmod # None
        THEN Some(KernelModule(<<91>> \o FromUtf8Lossy(kmod[1]) \o <<93>>))
        ELSE IF cpumode = PERF_RECORD_MISC_KERNEL THEN Some(Kernel)
        ELSE IF cpumode = PERF_RECORD_MISC_GUEST_KERNEL THEN Some(GuestKernel)
        ELSE IF cpumode = PERF_RECORD_MISC_USER \/ cpumode = PERF_RECORD_MISC_GUEST_USER
        THEN Some(User(FromUtf8Lossy(filename), p))
        ELSE None

\* DsoKey::detect(path, misc)
Detect(p, misc) ==
    IF IsNotDso(p) THEN None
    ELSE LET cpumode == BitAnd(misc, PERF_RECORD_MISC_CPUMODE_MASK)
         IN  IF StartsWith(p, B_kernel_kallsyms) THEN Some(KallsymsKey(cpumode))
             ELSE IF StartsWith(p, B_guest_kernel_kallsyms) THEN Some(GuestKernel)
             ELSE IF p = B_vdso32 THEN Some(Vdso32)
             ELSE IF p = B_vdsox32 THEN Some(VdsoX32)
             ELSE IF p = B_vdso THEN Some(Vdso64)
             ELSE IF p = B_vsyscall THEN Some(Vsyscall)
             ELSE IF IsBracketModule(cpumode, p) THEN Some(KernelModule(FromUtf8Lossy(p)))
             ELSE ByCpumode(cpumode, p)

\* --------------------------------------------------------------- integers

\* u64::BITS: the width of a register mask and of the shift in Regs::get
U64Bits == 64

\* The first position no buffer of the model reaches: every cursor position at or
\* above it stands for "far past the end" (a perf record is shorter than 2^16 bytes).
Huge == 256 * 256 * 256

Reverse(s) == [i \in 1..Len(s) |-> s[Len(s) + 1 - i]]

\* the digits of a value read from the bytes bs in byte order en
FromBytes(bs, en) == IF en = "LE" THEN Reverse(bs) ELSE bs

\* the bytes of the digits ds written in byte order en
ToBytes(ds, en) == IF en = "LE" THEN Reverse(ds) ELSE ds

IsZero(w) == \A i \in 1..Len(w) : w[i] = 0

\* the value is below 2^24: every digit but the last three is zero
IsSmall(w) == \A i \in 1..Len(w) : i <= Len(w) - 3 => w[i] = 0

RECURSIVE DigitsToNat(_)
DigitsToNat(w) ==
    IF w = <<>> THEN 0 ELSE 256 * DigitsToNat(SubSeq(w, 1, Len(w) - 1)) + w[Len(w)]

\* the number a small value is
ToNat(w) == DigitsToNat(SubSeq(w, IF Len(w) > 3 THEN Len(w) - 2 ELSE 1, Len(w)))

\* a u64 as an iteration count: a loop that reads cannot run Huge times
ToCount(w) == IF IsSmall(w) THEN ToNat(w) ELSE Huge

\* the digits of n < 2^24 as a value of `width` bytes
Digits(n, width) ==
    [i \in 1..width |->
        IF i = width THEN n % 256
        ELSE IF i = width - 1 THEN (n \div 256) % 256
        ELSE IF i = width - 2 THEN (n \div 65536) % 256
        ELSE 0]

\* 2^64 - n as a u64, for 0 < n < 2^24
NegDigits(n) ==
    LET low == Huge - n
    IN  <<255, 255, 255, 255, 255, low \div 65536, (low \div 256) % 256, low % 256>>

\* pos + w on u64, pos < Huge: the sum, whether it overflowed
AddU64(pos, w) ==
    IF IsSmall(w)
    THEN [overflow |-> FALSE, pos |-> IF pos + ToNat(w) >= Huge THEN Huge ELSE pos + ToNat(w)]
    ELSE LET low == ToNat(SubSeq(w, Len(w) - 2, Len(w)))
             top == SubSeq(w, 1, Len(w) - 3)
         IN  IF Len(w) = 8 /\ (\A i \in 1..5 : top[i] = 255) /\ low + pos >= Huge
             THEN [overflow |-> TRUE, pos |-> low + pos - Huge]
             ELSE [overflow |-> FALSE, pos |-> Huge]

\* ------------------------------------------------------------------- Regs

\* self.regs_mask & (1 << n) != 0, the shift count taken modulo 64 as a
\* shift that does not panic takes it
MaskBit(mask, n) == (n % U64Bits) \in mask

\* the loop of Regs::get: the mask bits counted over i in from..register-1
RECURSIVE CountBelow_Inclusive(_, _, _)
CountBelow_Inclusive(mask, from, reg) ==
    IF from > reg THEN 0
    ELSE (IF MaskBit(mask, from) THEN 1 ELSE 0) + CountBelow_Inclusive(mask, from + 1, reg)
RECURSIVE CountBelow(_, _, _)
CountBelow(mask, from, reg) ==
    IF from >= reg THEN 0
    ELSE (IF MaskBit(mask, from) THEN 1 ELSE 0) + CountBelow(mask, from + 1, reg)

\* RawRegs::get(index): the index-th 64-bit word of the view, in byte order en;
\* a word outside the view is a failed read
RawRegsGet(view, index, en) ==
    IF 8 * index + 8 <= Len(view.bytes)
    THEN Ret(FromBytes(SubSeq(view.bytes, 8 * index + 1, 8 * index + 8), en))
    ELSE Panic

\* Regs::get(register): `1 << register` overflows for register >= 64, which
\* panics in a build with overflow checks and wraps the shift count otherwise
RegsGet(r, reg, checks, en) ==
    IF reg >= U64Bits /\ checks THEN Panic
    ELSE IF ~MaskBit(r.regs_mask, reg) THEN Ret(None)
    ELSE LET index == CountBelow(r.regs_mask, 0, reg)
             word == RawRegsGet(r.raw_regs, index, en)
         IN  IF word = Panic THEN Panic ELSE Ret(Some(word.val))

\* ------------------------------------------------------------- the cursor

\* Cursor::new(&raw_data) with what parse has read so far: ok is FALSE once an
\* unwrap, an assertion or a slice index has panicked; val is the last value read;
\* log lists the fields read, each with the position its read started at.
NewCursor == [ok |-> TRUE, pos |-> 0, val |-> <<>>, log |-> <<>>]

Fail(s) == [s EXCEPT !.ok = FALSE]

\* cur.read_uN::<T>().unwrap() for a value of n bytes
Rd(s, n) ==
    IF ~s.ok \/ s.pos + n > Len(rec.data) THEN Fail(s)
    ELSE [s EXCEPT !.pos = s.pos + n,
                   !.val = FromBytes(SubSeq(rec.data, s.pos + 1, s.pos + n), endian)]

\* the field f is about to be read at the cursor
Mark(s, f) == IF s.ok THEN [s EXCEPT !.log = Append(@, [f |-> f, at |-> s.pos])] ELSE s

\* Mark, then Rd
RdField(s, f, n) == Rd(Mark(s, f), n)

\* cur.set_position(cur.position() + w) for a u64 w
Skip(s, w) ==
    LET sum == AddU64(s.pos, w)
    IN  IF ~s.ok THEN s
        ELSE IF sum.overflow /\ overflowChecks THEN Fail(s)
        ELSE [s EXCEPT !.pos = sum.pos]

\* the bytes from the cursor up to the first NUL, or to the end of the record
NameAt(s) ==
    LET name == SubSeq(rec.data, s.pos + 1, Len(rec.data))
        nul == Position(name, 0)
    IN  IF nul = 0 THEN name ELSE SubSeq(name, 1, nul - 1)

\* what a match arm of parse hands back: the event, or the panic
Outcome(s, ev) ==
    [event |-> IF s.ok THEN ev ELSE Panic, reads |-> s.log, endPos |-> s.pos]

\* ----------------------------------------------------- RawData (raw_data.rs)

EmptyView == [off |-> 0, bytes |-> <<>>]

\* RawData::get(from..to): the subrange as a view of the record's bytes; a range
\* that is not inside the record gives an empty view or a failure
RawDataGet(from, to) ==
    IF from <= to /\ to <= Len(rec.data)
    THEN [ok |-> TRUE, view |-> [off |-> from, bytes |-> SubSeq(rec.data, from + 1, to)]]
    ELSE [ok |-> getPolicy = "empty", view |-> EmptyView]

\* ----------------------------------------- RawEvent::parse, all but SAMPLE

\* PERF_RECORD_EXIT | PERF_RECORD_FORK
ExitForkArm_SkipsSampleId ==
    LET s1 == RdField(NewCursor, "pid", 4)
        s2 == RdField(s1, "ppid", 4)
        s3 == RdField(s2, "tid", 4)
        s4 == RdField(s3, "ptid", 4)
        s5 == RdField(s4, "timestamp", 8)
        s6 == IF params.sample_id_all THEN RdField(s5, "sample_id", 8) ELSE s5
    IN  Outcome(s6,
            [tag |-> IF rec.kind = PERF_RECORD_EXIT THEN "Exit" ELSE "Fork",
             pid |-> s1.val, ppid |-> s2.val, tid |-> s3.val, ptid |-> s4.val,
             timestamp |-> s5.val])
ExitForkArm ==
    LET s1 == RdField(NewCursor, "pid", 4)
        s2 == RdField(s1, "ppid", 4)
        s3 == RdField(s2, "tid", 4)
        s4 == RdField(s3, "ptid", 4)
        s5 == RdField(s4, "timestamp", 8)
    IN  Outcome(s5,
            [tag |-> IF rec.kind = PERF_RECORD_EXIT THEN "Exit" ELSE "Fork",
             pid |-> s1.val, ppid |-> s2.val, tid |-> s3.val, ptid |-> s4.val,
             timestamp |-> s5.val])

\* self.misc & PERF_RECORD_MISC_COMM_EXEC != 0
IsExecve_Cpumode(misc) == BitAnd(misc, PERF_RECORD_MISC_CPUMODE_MASK) # 0
IsExecve(misc) == HasBit(misc, PERF_RECORD_MISC_COMM_EXEC)

\* PERF_RECORD_COMM
CommArm ==
    LET s1 == RdField(NewCursor, "pid", 4)
        s2 == RdField(s1, "tid", 4)
        s3 == Mark(s2, "name")
    IN  Outcome(s3,
            [tag |-> "Comm", pid |-> s1.val, tid |-> s2.val, name |-> NameAt(s3),
             is_execve |-> IsExecve(rec.misc)])

\* PERF_RECORD_MMAP
MmapArm ==
    LET s1 == RdField(NewCursor, "pid", 4)
        s2 == RdField(s1, "tid", 4)
        s3 == RdField(s2, "address", 8)
        s4 == RdField(s3, "length", 8)
        s5 == RdField(s4, "page_offset", 8)
        s6 == Mark(s5, "path")
        name == NameAt(s6)
    IN  Outcome(s6,
            [tag |-> "Mmap", pid |-> s1.val, tid |-> s2.val, address |-> s3.val,
             length |-> s4.val, page_offset |-> s5.val,
             is_executable |-> ~HasBit(rec.misc, PERF_RECORD_MISC_MMAP_DATA),
             dso_key |-> Detect(name, rec.misc), path |-> name])

\* the size of the build-id region of an MMAP2 record
BuildIdRegion == 20

\* cur.set_position(cur.position() + 20), after the build id was copied
SkipBuildId_ByLength(s, len) == Skip(s, Digits(len, 8))
SkipBuildId(s, len) == Skip(s, Digits(BuildIdRegion, 8))

\* the build-id branch of MMAP2: the length, two reserved fields, the identifier
\* and the skip of the region; val is the file id
BuildIdBranch(s) ==
    LET s1 == RdField(s, "build_id_len", 1)
        len == s1.val[1]
        s2 == IF s1.ok /\ len > BuildIdRegion THEN Fail(s1) ELSE s1
        s3 == Rd(s2, 1)
        s4 == Mark(Rd(s3, 2), "build_id")
        s5 == IF s4.ok /\ s4.pos + len > Len(rec.data) THEN Fail(s4) ELSE s4
        s6 == SkipBuildId(s5, len)
    IN  IF ~s6.ok THEN s6
        ELSE [s6 EXCEPT !.val = [tag |-> "BuildId",
                                 build_id |-> SubSeq(rec.data, s4.pos + 1, s4.pos + len)]]

\* the other branch of MMAP2: major, minor, inode, inode_generation
InodeBranch(s) ==
    LET s1 == RdField(s, "major", 4)
        s2 == RdField(s1, "minor", 4)
        s3 == RdField(s2, "inode", 8)
        s4 == RdField(s3, "inode_generation", 8)
    IN  IF ~s4.ok THEN s4
        ELSE [s4 EXCEPT !.val = [tag |-> "InodeAndVersion", major |-> s1.val,
                                 minor |-> s2.val, inode |-> s3.val,
                                 inode_generation |-> s4.val]]

\* PERF_RECORD_MMAP2
Mmap2Arm ==
    LET s1 == RdField(NewCursor, "pid", 4)
        s2 == RdField(s1, "tid", 4)
        s3 == RdField(s2, "address", 8)
        s4 == RdField(s3, "length", 8)
        s5 == RdField(s4, "page_offset", 8)
        s6 == IF HasBit(rec.misc, PERF_RECORD_MISC_MMAP_BUILD_ID)
              THEN BuildIdBranch(s5) ELSE InodeBranch(s5)
        s7 == RdField(s6, "protection", 4)
        s8 == RdField(s7, "flags", 4)
        s9 == Mark(s8, "path")
        name == NameAt(s9)
    IN  Outcome(s9,
            [tag |-> "Mmap2", pid |-> s1.val, tid |-> s2.val, address |-> s3.val,
             length |-> s4.val, page_offset |-> s5.val, file_id |-> s6.val,
             protection |-> s7.val, flags |-> s8.val,
             dso_key |-> Detect(name, rec.misc), path |-> name])

\* PERF_RECORD_LOST
LostArm ==
    LET s1 == RdField(NewCursor, "id", 8)
        s2 == RdField(s1, "count", 8)
    IN  Outcome(s2, [tag |-> "Lost", id |-> s1.val, count |-> s2.val])

\* PERF_RECORD_THROTTLE | PERF_RECORD_UNTHROTTLE
ThrottleArm ==
    LET s1 == RdField(NewCursor, "timestamp", 8)
        s2 == RdField(s1, "id", 8)
    IN  Outcome(s2,
            [tag |-> IF rec.kind = PERF_RECORD_THROTTLE THEN "Throttle" ELSE "Unthrottle",
             id |-> s2.val, timestamp |-> s1.val])

\* PERF_RECORD_SWITCH
SwitchArm ==
    LET is_out == HasBit(rec.misc, PERF_RECORD_MISC_SWITCH_OUT)
        is_out_preempt == HasBit(rec.misc, PERF_RECORD_MISC_SWITCH_OUT_PREEMPT)
    IN  Outcome(NewCursor,
            [tag |-> "ContextSwitch",
             kind |-> IF is_out
                      THEN (IF is_out_preempt THEN "OutWhileRunning" ELSE "OutWhileIdle")
                      ELSE "In"])

\* the fallback arm: Event::Raw(self)
RawArm_SkipsSampleId ==
    Outcome(RdField(NewCursor, "id", 8), [tag |-> "Raw", raw |-> rec])
RawArm == Outcome(NewCursor, [tag |-> "Raw", raw |-> rec])

\* ------------------------------------------------- RawEvent::parse, SAMPLE

\* sample_type & flag != 0
Has(flag) == HasBit(params.sample_type, flag)

\* read_format & flag != 0
HasFormat(flag) == HasBit(params.read_format, flag)

\* a field that is one u64, read and dropped
Word(s, flag, f) == IF Has(flag) THEN RdField(s, f, 8) ELSE s

\* PERF_SAMPLE_TID: val is <<pid, tid>>
TidField(s) ==
    IF ~Has(PERF_SAMPLE_TID) THEN s
    ELSE
        LET s1 == RdField(s, "TID", 4)
            s2 == Rd(s1, 4)
        IN  IF s2.ok THEN [s2 EXCEPT !.val = <<s1.val, s2.val>>] ELSE s2

\* PERF_SAMPLE_CPU: val is cpu; the reserved word is read and dropped
CpuField(s) ==
    IF ~Has(PERF_SAMPLE_CPU) THEN s
    ELSE
        LET s1 == RdField(s, "CPU", 4)
            s2 == Rd(s1, 4)
        IN  IF s2.ok THEN [s2 EXCEPT !.val = s1.val] ELSE s2

\* the optional time_enabled and time_running of PERF_SAMPLE_READ
ReadTimes_EnabledOnly(s) == IF HasFormat(PERF_FORMAT_TOTAL_TIME_ENABLED) THEN Rd(s, 8) ELSE s
ReadTimes(s) ==
    LET s1 == IF HasFormat(PERF_FORMAT_TOTAL_TIME_ENABLED) THEN Rd(s, 8) ELSE s
    IN  IF HasFormat(PERF_FORMAT_TOTAL_TIME_RUNNING) THEN Rd(s1, 8) ELSE s1

\* for _ in 0..nr { value; id if PERF_FORMAT_ID }
RECURSIVE ReadGroup(_, _)
ReadGroup(s, nr) ==
    IF ~s.ok \/ nr = 0 THEN s
    ELSE LET s1 == Rd(s, 8)
             s2 == IF HasFormat(PERF_FORMAT_ID) THEN Rd(s1, 8) ELSE s1
         IN  ReadGroup(s2, nr - 1)

\* PERF_SAMPLE_READ
ReadField(s) ==
    IF ~Has(PERF_SAMPLE_READ) THEN s
    ELSE
        IF ~HasFormat(PERF_FORMAT_GROUP)
        THEN LET s1 == ReadTimes(RdField(s, "READ", 8))
             IN  IF HasFormat(PERF_FORMAT_ID) THEN Rd(s1, 8) ELSE s1
        ELSE LET s1 == RdField(s, "READ", 8)
             IN  ReadGroup(ReadTimes(s1), IF s1.ok THEN ToCount(s1.val) ELSE 0)

\* for _ in 0..callchain_length { callchain.push(addr) }: val is the callchain
RECURSIVE ReadAddrs(_, _)
ReadAddrs(s, n) ==
    IF ~s.ok \/ n = 0 THEN s
    ELSE LET s1 == Rd(s, 8)
         IN  ReadAddrs(IF s1.ok THEN [s1 EXCEPT !.val = Append(s.val, s1.val)] ELSE s1, n - 1)

\* PERF_SAMPLE_CALLCHAIN: a length no buffer holds panics, in Vec::with_capacity
\* or at the read that runs off the record
CallchainField(s) ==
    IF ~Has(PERF_SAMPLE_CALLCHAIN) THEN s
    ELSE
        LET s1 == RdField(s, "CALLCHAIN", 8)
        IN  IF ~s1.ok THEN s1 ELSE ReadAddrs([s1 EXCEPT !.val = <<>>], ToCount(s1.val))

\* PERF_SAMPLE_RAW: a u32 size, then that many bytes skipped
RawField(s) ==
    IF ~Has(PERF_SAMPLE_RAW) THEN s
    ELSE
        LET s1 == RdField(s, "RAW", 4)
        IN  IF ~s1.ok THEN s1 ELSE Skip(s1, s1.val)

\* for _ in 0..nr { from; to; flags }
RECURSIVE ReadBranches(_, _)
ReadBranches(s, nr) ==
    IF ~s.ok \/ nr = 0 THEN s
    ELSE ReadBranches(Rd(Rd(Rd(s, 8), 8), 8), nr - 1)

\* PERF_SAMPLE_BRANCH_STACK
BranchStackField(s) ==
    IF ~Has(PERF_SAMPLE_BRANCH_STACK) THEN s
    ELSE
        LET s1 == RdField(s, "BRANCH_STACK", 8)
            s2 == IF Has(PERF_SAMPLE_BRANCH_HW_INDEX) THEN Rd(s1, 8) ELSE s1
        IN  ReadBranches(s2, IF s1.ok THEN ToCount(s1.val) ELSE 0)

\* regs_count as u64 * size_of::<u64>() as u64, as a u64
RegsBytes == Digits(params.regs_count * 8, 8)

\* regs_abi == 0: no registers follow
NoRegsFollow_Never(abi) == FALSE
NoRegsFollow(abi) == IsZero(abi)

\* PERF_SAMPLE_REGS_USER: val is the Option<Regs>
RegsUserField(s) ==
    IF ~Has(PERF_SAMPLE_REGS_USER) THEN s
    ELSE
        LET s1 == RdField(s, "REGS_USER", 8)
            s2 == Skip(s1, RegsBytes)
            raw == RawDataGet(s1.pos, s2.pos)
        IN  IF ~s1.ok THEN s1
            ELSE IF NoRegsFollow(s1.val) THEN [s1 EXCEPT !.val = None]
            ELSE IF ~s2.ok \/ ~raw.ok THEN Fail(s2)
            ELSE [s2 EXCEPT !.val = Some([regs_mask |-> params.sample_regs_user,
                                          raw_regs |-> raw.view])]

\* stack_size != 0: the dynamic size follows the stack
HasDynamicSize(stack_size) == ~IsZero(stack_size)

\* self.data.get(stack_range), stack_range being from..to
StackView(from, to) == RawDataGet(from, to)

\* PERF_SAMPLE_STACK_USER: val is [stack, dynamic_stack_size]
StackUserField(s) ==
    IF ~Has(PERF_SAMPLE_STACK_USER) THEN s
    ELSE
        LET s1 == RdField(s, "STACK_USER", 8)
            s2 == Skip(s1, s1.val)
            s3 == IF HasDynamicSize(s1.val) THEN Rd(s2, 8) ELSE s2
            stack == StackView(s1.pos, s2.pos)
        IN  IF ~s1.ok THEN s1
            ELSE IF ~s3.ok \/ ~stack.ok THEN Fail(s3)
            ELSE [s3 EXCEPT !.val =
                     [stack |-> stack.view,
                      dynamic_stack_size |-> IF HasDynamicSize(s1.val) THEN s3.val
                                             ELSE Digits(0, 8)]]

\* PERF_SAMPLE_REGS_INTR
RegsIntrField(s) ==
    IF ~Has(PERF_SAMPLE_REGS_INTR) THEN s
    ELSE
        LET s1 == RdField(s, "REGS_INTR", 8)
        IN  IF ~s1.ok \/ IsZero(s1.val) THEN s1 ELSE Skip(s1, RegsBytes)

\* PERF_SAMPLE_AUX: a u64 size, then that many bytes skipped
AuxField(s) ==
    IF ~Has(PERF_SAMPLE_AUX) THEN s
    ELSE
        LET s1 == RdField(s, "AUX", 8)
        IN  IF ~s1.ok THEN s1 ELSE Skip(s1, s1.val)

\* PERF_RECORD_SAMPLE
SampleArm ==
    LET s1  == Word(NewCursor, PERF_SAMPLE_IDENTIFIER, "IDENTIFIER")
        s2  == Word(s1, PERF_SAMPLE_IP, "IP")
        s3  == TidField(s2)
        s4  == Word(s3, PERF_SAMPLE_TIME, "TIME")
        s5  == Word(s4, PERF_SAMPLE_ADDR, "ADDR")
        s6  == Word(s5, PERF_SAMPLE_ID, "ID")
        s7  == Word(s6, PERF_SAMPLE_STREAM_ID, "STREAM_ID")
        s8  == CpuField(s7)
        s9  == Word(s8, PERF_SAMPLE_PERIOD, "PERIOD")
        s10 == ReadField(s9)
        s11 == CallchainField(s10)
        s12 == RawField(s11)
        s13 == BranchStackField(s12)
        s14 == RegsUserField(s13)
        s15 == StackUserField(s14)
        s16 == Word(s15, PERF_SAMPLE_WEIGHT, "WEIGHT")
        s17 == Word(s16, PERF_SAMPLE_DATA_SRC, "DATA_SRC")
        s18 == Word(s17, PERF_SAMPLE_TRANSACTION, "TRANSACTION")
        s19 == RegsIntrField(s18)
        s20 == Word(s19, PERF_SAMPLE_PHYS_ADDR, "PHYS_ADDR")
        s21 == AuxField(s20)
        s22 == Word(s21, PERF_SAMPLE_DATA_PAGE_SIZE, "DATA_PAGE_SIZE")
        s23 == Word(s22, PERF_SAMPLE_CODE_PAGE_SIZE, "CODE_PAGE_SIZE")
        \* the cursor after each field, in the order the fields are read
        steps == << s1, s2, s3, s4, s5, s6, s7, s8, s9, s10, s11, s12, s13, s14,
                    s15, s16, s17, s18, s19, s20, s21, s22, s23 >>
    IN  Outcome(steps[Len(steps)],
            [tag |-> "Sample",
             timestamp |-> IF Has(PERF_SAMPLE_TIME) THEN Some(s4.val) ELSE None,
             pid |-> IF Has(PERF_SAMPLE_TID) THEN Some(s3.val[1]) ELSE None,
             tid |-> IF Has(PERF_SAMPLE_TID) THEN Some(s3.val[2]) ELSE None,
             cpu |-> IF Has(PERF_SAMPLE_CPU) THEN Some(s8.val) ELSE None,
             period |-> IF Has(PERF_SAMPLE_PERIOD) THEN Some(s9.val) ELSE None,
             regs |-> IF Has(PERF_SAMPLE_REGS_USER) THEN s14.val ELSE None,
             dynamic_stack_size |-> IF Has(PERF_SAMPLE_STACK_USER)
                                    THEN s15.val.dynamic_stack_size ELSE Digits(0, 8),
             stack |-> IF Has(PERF_SAMPLE_STACK_USER) THEN s15.val.stack ELSE EmptyView,
             callchain |-> IF Has(PERF_SAMPLE_CALLCHAIN) THEN Some(s11.val) ELSE None])

\* --------------------------------------------------------- the idle values

NoRec == [kind |-> 0, misc |-> 0, data |-> <<>>]
NoParams ==
    [sample_type |-> 0, read_format |-> 0, regs_count |-> 0,
     sample_regs_user |-> {}, sample_id_all |-> FALSE]
NoGen == [kind |-> "none"]
NoRegs == [regs_mask |-> {}, raw_regs |-> [off |-> 0, bytes |-> <<>>]]

ParseIdle ==
    /\ rec = NoRec /\ params = NoParams /\ gen = NoGen
    /\ event = NotRun /\ reads = <<>> /\ endPos = 0 /\ first = NotRun
GetIdle == regs = NoRegs /\ register = 0 /\ got = NotRun
DetectIdle == path = <<>> /\ pmisc = 0 /\ key = NotRun /\ nameKey = NotRun
NoOs == [probe |-> 0, status |-> 0, map |-> <<>>, beyond |-> "fault"]
EtwIdle == info = <<>> /\ propIndex = 0 /\ os = NoOs /\ prop = NotRun /\ trace = <<>>
DefaultBuild == overflowChecks = TRUE /\ endian = "LE" /\ getPolicy = "empty"

parseVars == <<rec, params, gen, event, reads, endPos, first>>
getVars == <<regs, register, got>>
detectVars == <<path, pmisc, key, nameKey>>
buildVars == <<overflowChecks, endian, getPolicy, op>>
etwVars == <<info, propIndex, os, prop, trace>>

\* ------------------------------------------------ the writer of the records

\* The payloads are laid out as the kernel lays them out (the order and the
\* sizes of perf_event_open(2)), every byte of a fixed field being a function
\* of its offset, so that a read at a wrong offset reads a different value.
FillByte(i) == 17 + (i % 199)
Fill(at, n) == [i \in 1..n |-> FillByte(at + i - 1)]

U64(n, en) == ToBytes(Digits(n, 8), en)
U32(n, en) == ToBytes(Digits(n, 4), en)

\* the fields of a SAMPLE payload in their order, each with its sample_type flag
SampleFields ==
    << [f |-> "IDENTIFIER", flag |-> PERF_SAMPLE_IDENTIFIER],
       [f |-> "IP", flag |-> PERF_SAMPLE_IP],
       [f |-> "TID", flag |-> PERF_SAMPLE_TID],
       [f |-> "TIME", flag |-> PERF_SAMPLE_TIME],
       [f |-> "ADDR", flag |-> PERF_SAMPLE_ADDR],
       [f |-> "ID", flag |-> PERF_SAMPLE_ID],
       [f |-> "STREAM_ID", flag |-> PERF_SAMPLE_STREAM_ID],
       [f |-> "CPU", flag |-> PERF_SAMPLE_CPU],
       [f |-> "PERIOD", flag |-> PERF_SAMPLE_PERIOD],
       [f |-> "READ", flag |-> PERF_SAMPLE_READ],
       [f |-> "CALLCHAIN", flag |-> PERF_SAMPLE_CALLCHAIN],
       [f |-> "RAW", flag |-> PERF_SAMPLE_RAW],
       [f |-> "BRANCH_STACK", flag |-> PERF_SAMPLE_BRANCH_STACK],
       [f |-> "REGS_USER", flag |-> PERF_SAMPLE_REGS_USER],
       [f |-> "STACK_USER", flag |-> PERF_SAMPLE_STACK_USER],
       [f |-> "WEIGHT", flag |-> PERF_SAMPLE_WEIGHT],
       [f |-> "DATA_SRC", flag |-> PERF_SAMPLE_DATA_SRC],
       [f |-> "TRANSACTION", flag |-> PERF_SAMPLE_TRANSACTION],
       [f |-> "REGS_INTR", flag |-> PERF_SAMPLE_REGS_INTR],
       [f |-> "PHYS_ADDR", flag |-> PERF_SAMPLE_PHYS_ADDR],
       [f |-> "AUX", flag |-> PERF_SAMPLE_AUX],
       [f |-> "DATA_PAGE_SIZE", flag |-> PERF_SAMPLE_DATA_PAGE_SIZE],
       [f |-> "CODE_PAGE_SIZE", flag |-> PERF_SAMPLE_CODE_PAGE_SIZE] >>

Bit(x, flag) == IF HasBit(x, flag) THEN 1 ELSE 0

\* The bytes of the field f written at offset `at`. w is what the writer chose:
\* st and rf (sample_type, read_format), n (every count and size), abi, rc (the
\* register count), stack ("zero", "some" or "wrap": a declared stack size
\* that, added to the cursor, wraps around to the start of the record) and en.
FieldBytes(f, at, w) ==
    CASE f = "READ" ->
            IF ~HasBit(w.rf, PERF_FORMAT_GROUP)
            THEN Fill(at, 8 * (1 + Bit(w.rf, PERF_FORMAT_TOTAL_TIME_ENABLED)
                                 + Bit(w.rf, PERF_FORMAT_TOTAL_TIME_RUNNING)
                                 + Bit(w.rf, PERF_FORMAT_ID)))
            ELSE U64(w.n, w.en)
                 \o Fill(at + 8, 8 * (Bit(w.rf, PERF_FORMAT_TOTAL_TIME_ENABLED)
                                      + Bit(w.rf, PERF_FORMAT_TOTAL_TIME_RUNNING)
                                      + w.n * (1 + Bit(w.rf, PERF_FORMAT_ID))))
      [] f = "CALLCHAIN" -> U64(w.n, w.en) \o Fill(at + 8, 8 * w.n)
      [] f = "RAW" -> U32(w.n, w.en) \o Fill(at + 4, w.n)
      [] f = "BRANCH_STACK" ->
            U64(w.n, w.en)
            \o Fill(at + 8, 8 * Bit(w.st, PERF_SAMPLE_BRANCH_HW_INDEX) + 24 * w.n)
      [] f \in {"REGS_USER", "REGS_INTR"} ->
            U64(w.abi, w.en) \o (IF w.abi # 0 THEN Fill(at + 8, 8 * w.rc) ELSE <<>>)
      [] f = "STACK_USER" ->
            (CASE w.stack = "zero" -> U64(0, w.en)
               [] w.stack = "some" -> U64(8, w.en) \o Fill(at + 8, 16)
               [] w.stack = "wrap" -> ToBytes(NegDigits(at + 8), w.en))
      [] f = "AUX" -> U64(w.n, w.en) \o Fill(at + 8, w.n)
      [] OTHER -> Fill(at, 8)

\* the payload of the fields i.. appended to acc, and where each field starts
RECURSIVE WriteSample(_, _, _, _)
WriteSample(i, acc, layout, w) ==
    IF i > Len(SampleFields) THEN [bytes |-> acc, layout |-> layout]
    ELSE IF ~HasBit(w.st, SampleFields[i].flag) THEN WriteSample(i + 1, acc, layout, w)
    ELSE WriteSample(i + 1,
                     acc \o FieldBytes(SampleFields[i].f, Len(acc), w),
                     Append(layout, [f |-> SampleFields[i].f, at |-> Len(acc)]),
                     w)

\* the record as it arrives: whole, one byte short, or cut in half
Cuts == {"full", "drop1", "half"}
Cut(bytes, cut) ==
    CASE cut = "full" -> bytes
      [] cut = "drop1" -> SubSeq(bytes, 1, Len(bytes) - 1)
      [] cut = "half" -> SubSeq(bytes, 1, Len(bytes) \div 2)

\* the struct sample_id the kernel appends to a non-SAMPLE record
Trailer(at, sample_id_all) == IF sample_id_all THEN Fill(at, 8) ELSE <<>>

\* the subsets of S of at most k elements
RECURSIVE SubsetsUpTo(_, _)
SubsetsUpTo(S, k) ==
    IF k = 0 THEN {{}}
    ELSE LET smaller == SubsetsUpTo(S, k - 1)
         IN  smaller \cup {T \cup {x} : T \in smaller, x \in S}

RECURSIVE SetSum(_)
SetSum(S) == IF S = {} THEN 0 ELSE LET x == CHOOSE y \in S : TRUE IN x + SetSum(S \ {x})

AllFlags == {SampleFields[i].flag : i \in 1..Len(SampleFields)}

\* every sample_type of at most MaxFlags flags, every flag at once, and the
\* sample_type of a stack-sampling session
SampleTypes ==
    {SetSum(F) : F \in SubsetsUpTo(AllFlags, MaxFlags)}
    \cup {SetSum(AllFlags),
          PERF_SAMPLE_IP + PERF_SAMPLE_TID + PERF_SAMPLE_TIME + PERF_SAMPLE_CPU
          + PERF_SAMPLE_PERIOD + PERF_SAMPLE_CALLCHAIN + PERF_SAMPLE_REGS_USER
          + PERF_SAMPLE_STACK_USER}

ReadFormats ==
    {0, PERF_FORMAT_GROUP,
     PERF_FORMAT_ID + PERF_FORMAT_TOTAL_TIME_ENABLED + PERF_FORMAT_TOTAL_TIME_RUNNING,
     PERF_FORMAT_GROUP + PERF_FORMAT_ID + PERF_FORMAT_TOTAL_TIME_ENABLED}

AnyOf(st, flags) == \E fl \in flags : HasBit(st, fl)

\* the choices that change the payload of a sample_type
FormatsOf(st) == IF AnyOf(st, {PERF_SAMPLE_READ}) THEN ReadFormats ELSE {0}
CountsOf(st) ==
    IF AnyOf(st, {PERF_SAMPLE_READ, PERF_SAMPLE_CALLCHAIN, PERF_SAMPLE_RAW,
                  PERF_SAMPLE_BRANCH_STACK, PERF_SAMPLE_AUX})
    THEN {0, MaxCount} ELSE {0}
AbisOf(st) ==
    IF AnyOf(st, {PERF_SAMPLE_REGS_USER, PERF_SAMPLE_REGS_INTR}) THEN {0, 2} ELSE {0}
\* the session samples the registers 0..MaxRegsCount-1; the regs_count handed to
\* parse is their number, or 1
RegsCountsOf(st) ==
    IF AnyOf(st, {PERF_SAMPLE_REGS_USER, PERF_SAMPLE_REGS_INTR})
    THEN {1, MaxRegsCount} ELSE {0}
RegsMasksOf(st) ==
    IF AnyOf(st, {PERF_SAMPLE_REGS_USER}) THEN {0..(MaxRegsCount - 1)} ELSE {{}}
StacksOf(st) ==
    IF AnyOf(st, {PERF_SAMPLE_STACK_USER}) THEN {"zero", "some", "wrap"} ELSE {"zero"}
PoliciesOf(st) ==
    IF AnyOf(st, {PERF_SAMPLE_REGS_USER, PERF_SAMPLE_STACK_USER})
    THEN {"empty", "failure"} ELSE {"empty"}

InitSample ==
    \E st \in SampleTypes :
    \E rf \in FormatsOf(st), n \in CountsOf(st), abi \in AbisOf(st),
       rc \in RegsCountsOf(st), mask \in RegsMasksOf(st), stack \in StacksOf(st),
       en \in {"LE", "BE"} :
        LET w == [st |-> st, rf |-> rf, n |-> n, abi |-> abi, rc |-> rc,
                  stack |-> stack, en |-> en]
            written == WriteSample(1, <<>>, <<>>, w)
        IN  /\ endian = en
            /\ overflowChecks \in (IF stack = "wrap" THEN BOOLEAN ELSE {TRUE})
            /\ getPolicy \in PoliciesOf(st)
            /\ params = [sample_type |-> st, read_format |-> rf, regs_count |-> rc,
                         sample_regs_user |-> mask, sample_id_all |-> FALSE]
            /\ \E cut \in Cuts :
                /\ rec = [kind |-> PERF_RECORD_SAMPLE, misc |-> PERF_RECORD_MISC_USER,
                          data |-> Cut(written.bytes, cut)]
                /\ gen = [kind |-> "sample", n |-> n, abi |-> abi, stack |-> stack,
                          layout |-> written.layout, full |-> Len(written.bytes),
                          cut |-> cut]

\* the session parameters of a record that is no SAMPLE
SessionParams(sample_id_all) ==
    [sample_type |-> PERF_SAMPLE_TID, read_format |-> 0, regs_count |-> 0,
     sample_regs_user |-> {}, sample_id_all |-> sample_id_all]

\* a record of `kind` whose payload is `body`, then the trailer, then cut
InitRecord(kind, misc, name, body) ==
    \E sample_id_all \in BOOLEAN, cut \in Cuts, en \in {"LE", "BE"} :
        LET bytes == body \o Trailer(Len(body), sample_id_all)
        IN  /\ endian = en /\ overflowChecks = TRUE /\ getPolicy = "empty"
            /\ rec = [kind |-> kind, misc |-> misc, data |-> Cut(bytes, cut)]
            /\ params = SessionParams(sample_id_all)
            /\ gen = [kind |-> name, body |-> Len(body), full |-> Len(bytes), cut |-> cut]

\* the bytes after pid and tid in a COMM record: NUL, 'a' and 'b'
NameBytes == {0, 97, 98}

MmapPaths ==
    {B_vdso, B_anon, <<47, 108, 105, 98, 47, 97, 46, 107, 111>>,   \* b"/lib/a.ko"
     <<47, 98, 105, 110, 47, 108, 115>>}                           \* b"/bin/ls"

InitExitFork ==
    \E kind \in {PERF_RECORD_EXIT, PERF_RECORD_FORK} :
        InitRecord(kind, 0, "process", Fill(0, 24))

InitComm ==
    \E misc \in {0, PERF_RECORD_MISC_USER, PERF_RECORD_MISC_COMM_EXEC,
                 PERF_RECORD_MISC_COMM_EXEC + PERF_RECORD_MISC_USER},
       name \in SeqsUpTo(NameBytes, MaxName) :
        InitRecord(PERF_RECORD_COMM, misc, "comm", Fill(0, 8) \o name)

InitMmap ==
    \E misc \in {PERF_RECORD_MISC_KERNEL, PERF_RECORD_MISC_USER,
                 PERF_RECORD_MISC_USER + PERF_RECORD_MISC_MMAP_DATA},
       p \in MmapPaths :
        InitRecord(PERF_RECORD_MMAP, misc, "mmap", Fill(0, 32) \o p \o <<0>>)

\* an MMAP2 record with a build id of len bytes: the fixed fields, the length,
\* the reserved bytes, the 20-byte region, protection, flags and the path
InitMmap2BuildId ==
    \E misc \in {PERF_RECORD_MISC_USER + PERF_RECORD_MISC_MMAP_BUILD_ID,
                 PERF_RECORD_MISC_KERNEL + PERF_RECORD_MISC_MMAP_BUILD_ID},
       len \in 0..(BuildIdRegion + 1), p \in MmapPaths :
        InitRecord(PERF_RECORD_MMAP2, misc, "mmap2",
                   Fill(0, 32) \o <<len>> \o Fill(33, 3 + BuildIdRegion + 8) \o p \o <<0>>)

InitMmap2Inode ==
    \E misc \in {PERF_RECORD_MISC_USER, PERF_RECORD_MISC_KERNEL}, p \in MmapPaths :
        InitRecord(PERF_RECORD_MMAP2, misc, "mmap2", Fill(0, 64) \o p \o <<0>>)

InitLostThrottle ==
    \E kind \in {PERF_RECORD_LOST, PERF_RECORD_THROTTLE, PERF_RECORD_UNTHROTTLE} :
        InitRecord(kind, 0, "counters", Fill(0, 16))

InitSwitch ==
    \E misc \in {0, PERF_RECORD_MISC_SWITCH_OUT, PERF_RECORD_MISC_SWITCH_OUT_PREEMPT,
                 PERF_RECORD_MISC_SWITCH_OUT + PERF_RECORD_MISC_SWITCH_OUT_PREEMPT} :
        InitRecord(PERF_RECORD_SWITCH, misc, "switch", <<>>)

\* PERF_RECORD_READ, PERF_RECORD_AUX, PERF_RECORD_SWITCH_CPU_WIDE and a kind
\* the kernel does not define
OtherKinds == {8, 11, 15, 99}

\* the sessions of the records of the other kinds: no sampled field, every
\* sampled field with a grouped read format and user registers
OtherSessions ==
    {[sample_type |-> 0, read_format |-> 0, regs_count |-> 0, sample_regs_user |-> {}],
     [sample_type |-> SetSum(AllFlags), read_format |-> PERF_FORMAT_GROUP,
      regs_count |-> MaxRegsCount, sample_regs_user |-> 0..(MaxRegsCount - 1)]}

\* a record of another kind: any misc, an empty or a 16-byte payload, then the
\* trailer, then cut
InitOther ==
    \E kind \in OtherKinds,
       misc \in {0, PERF_RECORD_MISC_USER + PERF_RECORD_MISC_COMM_EXEC},
       len \in {0, 16}, session \in OtherSessions,
       sample_id_all \in BOOLEAN, cut \in Cuts, en \in {"LE", "BE"} :
        LET bytes == Fill(0, len) \o Trailer(len, sample_id_all)
        IN  /\ endian = en /\ overflowChecks = TRUE /\ getPolicy = "empty"
            /\ rec = [kind |-> kind, misc |-> misc, data |-> Cut(bytes, cut)]
            /\ params = [sample_type |-> session.sample_type,
                         read_format |-> session.read_format,
                         regs_count |-> session.regs_count,
                         sample_regs_user |-> session.sample_regs_user,
                         sample_id_all |-> sample_id_all]
            /\ gen = [kind |-> "other", body |-> len, full |-> Len(bytes), cut |-> cut]

Init ==
    /\ GetIdle /\ DetectIdle /\ EtwIdle
    /\ op = "parse" /\ pc = "call"
    /\ event = NotRun /\ reads = <<>> /\ endPos = 0 /\ first = NotRun
    /\ \/ InitSample
       \/ InitExitFork
       \/ InitComm
       \/ InitMmap
       \/ InitMmap2BuildId
       \/ InitMmap2Inode
       \/ InitLostThrottle
       \/ InitSwitch
       \/ InitOther

\* ------------------------------------------------- calls of RawEvent::parse

\* parse returns what the arm of the record's kind gives
Return(out) ==
    /\ event' = out.event
    /\ reads' = out.reads
    /\ endPos' = out.endPos
    /\ pc' = "done"
    /\ UNCHANGED <<buildVars, rec, params, gen, first, getVars, detectVars, etwVars>>

Parsing == op = "parse" /\ pc = "call"

ParseExitFork ==
    /\ Parsing /\ rec.kind \in {PERF_RECORD_EXIT, PERF_RECORD_FORK}
    /\ Return(ExitForkArm)

ParseSample == Parsing /\ rec.kind = PERF_RECORD_SAMPLE /\ Return(SampleArm)

ParseComm == Parsing /\ rec.kind = PERF_RECORD_COMM /\ Return(CommArm)

ParseMmap == Parsing /\ rec.kind = PERF_RECORD_MMAP /\ Return(MmapArm)

ParseMmap2 == Parsing /\ rec.kind = PERF_RECORD_MMAP2 /\ Return(Mmap2Arm)

ParseLost == Parsing /\ rec.kind = PERF_RECORD_LOST /\ Return(LostArm)

ParseThrottle ==
    /\ Parsing /\ rec.kind \in {PERF_RECORD_THROTTLE, PERF_RECORD_UNTHROTTLE}
    /\ Return(ThrottleArm)

ParseSwitch == Parsing /\ rec.kind = PERF_RECORD_SWITCH /\ Return(SwitchArm)

ParseRaw ==
    /\ Parsing
    /\ rec.kind \notin {PERF_RECORD_EXIT, PERF_RECORD_FORK, PERF_RECORD_SAMPLE,
                        PERF_RECORD_COMM, PERF_RECORD_MMAP, PERF_RECORD_MMAP2,
                        PERF_RECORD_LOST, PERF_RECORD_THROTTLE, PERF_RECORD_UNTHROTTLE,
                        PERF_RECORD_SWITCH}
    /\ Return(RawArm)

Next ==
    \/ ParseExitFork
    \/ ParseSample
    \/ ParseComm
    \/ ParseMmap
    \/ ParseMmap2
    \/ ParseLost
    \/ ParseThrottle
    \/ ParseSwitch
    \/ ParseRaw

Spec == Init /\ [][Next]_vars

\* The caller keeps what parse returned and calls it again on the same record,
\* with the same session parameters but the other sample_id_all.
CallWithOtherSampleIdAll ==
    /\ op = "parse" /\ pc = "done" /\ first = NotRun
    /\ first' = [event |-> event, reads |-> reads, endPos |-> endPos]
    /\ params' = [params EXCEPT !.sample_id_all = ~@]
    /\ event' = NotRun /\ reads' = <<>> /\ endPos' = 0
    /\ pc' = "call"
    /\ UNCHANGED <<buildVars, rec, gen, getVars, detectVars, etwVars>>

NextTwice == Next \/ CallWithOtherSampleIdAll

SpecTwice == Init /\ [][NextTwice]_vars

\* ----------------------------------------------- RawEvent::parse: the claims

ParseDone == op = "parse" /\ pc = "done"
SampleDone == ParseDone /\ rec.kind = PERF_RECORD_SAMPLE

\* the flag is set in the sample_type of the session
FlagSet(flag) == BitAnd(params.sample_type, flag) # 0

\* the payload is whole, and every size it declares is the size of what follows
WellFormed == gen.cut = "full" /\ gen.stack # "wrap"

\* where the writer put the field f of the payload
LayoutAt(f) == (CHOOSE l \in {gen.layout[i] : i \in 1..Len(gen.layout)} : l.f = f).at

IsPrefix(a, b) == Len(a) <= Len(b) /\ a = SubSeq(b, 1, Len(a))

\* C1: parse returns a value, never panics, for every record kind and every
\* payload, the truncated ones included.
C1_ParseNeverPanics == ParseDone => event # Panic

\* C3 as stated: a whole payload decodes to a Sample whose timestamp, pid/tid,
\* cpu, period, regs and callchain are present exactly when TIME, TID, CPU,
\* PERIOD, REGS_USER and CALLCHAIN are set.
C3_OptionalsFollowFlags ==
    (SampleDone /\ WellFormed) =>
        /\ event.tag = "Sample"
        /\ event.timestamp # None <=> FlagSet(PERF_SAMPLE_TIME)
        /\ event.pid # None <=> FlagSet(PERF_SAMPLE_TID)
        /\ event.tid # None <=> FlagSet(PERF_SAMPLE_TID)
        /\ event.cpu # None <=> FlagSet(PERF_SAMPLE_CPU)
        /\ event.period # None <=> FlagSet(PERF_SAMPLE_PERIOD)
        /\ event.callchain # None <=> FlagSet(PERF_SAMPLE_CALLCHAIN)
        /\ event.regs # None <=> FlagSet(PERF_SAMPLE_REGS_USER)

\* C3 amended: the same, but regs is present exactly when REGS_USER is set and
\* the regs_abi word of the payload is not zero.
C3_RegsNeedAbi ==
    (SampleDone /\ WellFormed) =>
        /\ event.tag = "Sample"
        /\ event.timestamp # None <=> FlagSet(PERF_SAMPLE_TIME)
        /\ event.pid # None <=> FlagSet(PERF_SAMPLE_TID)
        /\ event.tid # None <=> FlagSet(PERF_SAMPLE_TID)
        /\ event.cpu # None <=> FlagSet(PERF_SAMPLE_CPU)
        /\ event.period # None <=> FlagSet(PERF_SAMPLE_PERIOD)
        /\ event.callchain # None <=> FlagSet(PERF_SAMPLE_CALLCHAIN)
        /\ event.regs # None <=> (FlagSet(PERF_SAMPLE_REGS_USER) /\ gen.abi # 0)

\* C3 witness: every flag set and a regs_abi of zero: all the optionals are
\* present but regs.
C3_Witness ==
    /\ SampleDone /\ WellFormed /\ params.sample_type = SetSum(AllFlags) /\ gen.abi = 0
    /\ event.tag = "Sample"
    /\ event.timestamp # None /\ event.pid # None /\ event.cpu # None
    /\ event.period # None /\ event.callchain # None /\ event.regs = None

\* C4: the fields are read in the documented order, each only when its flag is
\* set and each at the offset that is the total size of the fields before it: for
\* a payload whose declared sizes are the sizes of what follows them, the fields
\* read, with their offsets, are the fields the writer laid out, up to the read
\* that failed, and a whole payload is read to its end.
C4_FieldsInOrder ==
    (SampleDone /\ gen.stack # "wrap") =>
        /\ IsPrefix(reads, gen.layout)
        /\ (event # Panic /\ gen.cut = "full") => (reads = gen.layout /\ endPos = gen.full)

\* C4 witness: every flag set, a READ group with ids and both times, counts of
\* two: the twenty-three fields are read where they were written.
C4_Witness ==
    /\ SampleDone /\ WellFormed /\ params.sample_type = SetSum(AllFlags)
    /\ HasFormat(PERF_FORMAT_GROUP) /\ HasFormat(PERF_FORMAT_ID)
    /\ HasFormat(PERF_FORMAT_TOTAL_TIME_ENABLED)
    /\ gen.n = 2 /\ gen.abi # 0 /\ gen.stack = "some"
    /\ event # Panic /\ Len(reads) = Len(SampleFields) /\ reads = gen.layout

\* C5: in every Sample the stack is the subrange of the record that follows the
\* declared size and is as long as the size declares; a declared size of zero,
\* or no STACK_USER, gives a dynamic_stack_size of zero and no word is read for it.
C5_StackHasDeclaredSize ==
    (SampleDone /\ event # Panic) =>
        IF FlagSet(PERF_SAMPLE_STACK_USER)
        THEN LET at == LayoutAt("STACK_USER")
                 declared == FromBytes(SubSeq(rec.data, at + 1, at + 8), endian)
                 len == Len(event.stack.bytes)
             IN  /\ Digits(len, 8) = declared
                 /\ event.stack.bytes = SubSeq(rec.data, at + 9, at + 8 + len)
                 /\ IsZero(declared) =>
                        /\ IsZero(event.dynamic_stack_size)
                        /\ reads[Len(reads)].f = "STACK_USER" => endPos = at + 8
        ELSE /\ event.stack.bytes = <<>>
             /\ IsZero(event.dynamic_stack_size)
             /\ reads = gen.layout

\* the payload of an MMAP2 record that carries a build id: its length byte is
\* at offset 32, the region at 36, protection at 56, flags at 60, the path at 64
Mmap2BuildIdDone ==
    /\ ParseDone /\ rec.kind = PERF_RECORD_MMAP2
    /\ BitAnd(rec.misc, PERF_RECORD_MISC_MMAP_BUILD_ID) # 0

\* the offset at which the field f was read
ReadAt(f) == (CHOOSE l \in {reads[i] : i \in 1..Len(reads)} : l.f = f).at

\* C6: with MMAP_BUILD_ID set, twenty bytes are consumed for the build-id region
\* whatever the build-id length (0 to 20) is, so that protection, flags and path
\* are read at 56, 60 and 64, and the identifier is the first build_id_length
\* bytes of the region; a whole record of any such length decodes.
C6_BuildIdRegion ==
    Mmap2BuildIdDone =>
        /\ (gen.cut = "full" /\ rec.data[33] <= 20) => event # Panic
        /\ event # Panic =>
            /\ rec.data[33] <= 20
            /\ ReadAt("build_id") = 36
            /\ ReadAt("protection") = 56 /\ ReadAt("flags") = 60 /\ ReadAt("path") = 64
            /\ event.protection = FromBytes(SubSeq(rec.data, 57, 60), endian)
            /\ event.flags = FromBytes(SubSeq(rec.data, 61, 64), endian)
            /\ event.file_id.tag = "BuildId"
            /\ event.file_id.build_id = SubSeq(rec.data, 37, 36 + rec.data[33])

\* C6 witness: a build id of five bytes, protection read at offset 56.
C6_Witness ==
    /\ Mmap2BuildIdDone /\ rec.data[33] = 5 /\ event # Panic
    /\ Len(event.file_id.build_id) = 5 /\ ReadAt("protection") = 56

\* the bytes of a COMM record after pid and tid
CommRest == SubSeq(rec.data, 9, Len(rec.data))

\* C7: the name of a COMM record is the bytes after pid and tid up to the first
\* NUL, without it, or all of them when none is NUL, and is_execve is true
\* exactly when COMM_EXEC is set in misc.
C7_CommName ==
    (ParseDone /\ rec.kind = PERF_RECORD_COMM) =>
        /\ Len(rec.data) >= 8 => event # Panic
        /\ event # Panic =>
            /\ IsPrefix(event.name, CommRest)
            /\ \A i \in 1..Len(event.name) : event.name[i] # 0
            /\ Len(event.name) < Len(CommRest) => CommRest[Len(event.name) + 1] = 0
            /\ event.is_execve <=> BitAnd(rec.misc, PERF_RECORD_MISC_COMM_EXEC) # 0

\* C7 witness: bytes follow the first NUL and are left out of the name, in a
\* record of an exec.
C7_Witness ==
    /\ ParseDone /\ rec.kind = PERF_RECORD_COMM /\ event # Panic
    /\ event.name # <<>> /\ Len(event.name) + 1 < Len(CommRest)
    /\ event.is_execve

\* C19: every Regs that parse builds for a SAMPLE record answers get(r), for each
\* register r whose bit is set in its mask, from inside its view: the word index
\* get computes is below regs_count, whatever sample_regs_user and regs_count
\* the session has.
C19_RegisterIndexInView ==
    (SampleDone /\ event # Panic /\ event.regs # None) =>
        \A r \in event.regs[1].regs_mask :
            CountBelow(event.regs[1].regs_mask, 0, r) < params.regs_count

\* parse was called twice on the record and has returned
ParsedTwice == ParseDone /\ first # NotRun

\* the bytes of the record that are the payload, without the sample_id trailer
BodyBytes == SubSeq(rec.data, 1, IF gen.body < Len(rec.data) THEN gen.body ELSE Len(rec.data))

\* the read starts inside the payload; a name or a path may start at its end
InsideBody(r) ==
    \/ r.at < gen.body
    \/ r.at = gen.body /\ r.f \in {"name", "path"}

\* the name or path of the event, for the kinds that have one
NameOrPath ==
    IF event.tag = "Comm" THEN event.name
    ELSE IF event.tag \in {"Mmap", "Mmap2"} THEN event.path
    ELSE <<>>

\* C21: parse returns the same Event, after the same reads, with sample_id_all
\* true and false, for every record and every session; and for the kinds other
\* than SAMPLE it consumes no byte of the sample_id trailer: every read starts in
\* the payload, the cursor ends in it, and a name or a path holds trailer bytes
\* only when the payload has no NUL to end it.
C21_SampleIdAllIgnored ==
    /\ ParsedTwice =>
           /\ event = first.event
           /\ reads = first.reads
           /\ endPos = first.endPos
    /\ (ParseDone /\ rec.kind # PERF_RECORD_SAMPLE /\ event # Panic) =>
           /\ endPos <= gen.body
           /\ \A i \in 1..Len(reads) : InsideBody(reads[i])
           /\ (\E i \in (endPos + 1)..Len(BodyBytes) : BodyBytes[i] = 0) =>
                  endPos + Len(NameOrPath) < Len(BodyBytes)

\* C21 witness: a FORK record that ends with a sample_id trailer, parsed with
\* sample_id_all true and then false, gives the same Fork both times and the
\* cursor stops where the trailer starts.
C21_Witness ==
    /\ ParsedTwice /\ rec.kind = PERF_RECORD_FORK
    /\ gen.cut = "full" /\ Len(rec.data) > gen.body
    /\ ~params.sample_id_all
    /\ event # Panic /\ event.tag = "Fork" /\ event = first.event
    /\ endPos = gen.body

\* the kinds that parse decodes
DecodedKinds ==
    {PERF_RECORD_EXIT, PERF_RECORD_FORK, PERF_RECORD_SAMPLE, PERF_RECORD_COMM,
     PERF_RECORD_MMAP, PERF_RECORD_MMAP2, PERF_RECORD_LOST, PERF_RECORD_THROTTLE,
     PERF_RECORD_UNTHROTTLE, PERF_RECORD_SWITCH}

\* C13: a record of any other kind comes back as Event::Raw with its kind, misc
\* and data unchanged; parse reads no payload byte and does not fail, whatever the
\* payload length and the session parameters.
C13_OtherKindsAreRaw ==
    (ParseDone /\ rec.kind \notin DecodedKinds) =>
        /\ event # Panic
        /\ event.tag = "Raw"
        /\ event.raw.kind = rec.kind
        /\ event.raw.misc = rec.misc
        /\ event.raw.data = rec.data
        /\ reads = <<>>
        /\ endPos = 0

\* C13 witness: a record of an undefined kind with an empty payload, in a session
\* that samples every field, is returned raw.
C13_Witness ==
    /\ ParseDone /\ rec.kind = 99 /\ rec.data = <<>> /\ rec.misc # 0
    /\ params.sample_type = SetSum(AllFlags)
    /\ event = [tag |-> "Raw", raw |-> rec]

\* ------------------------------------------------- calls of DsoKey::detect

\* '/', '[', 'a' and a byte that is never valid UTF-8
PathBytes == {47, 91, 97, 255}

PathHeads ==
    {<<>>, B_anon, B_stack, B_heap, B_vvar, B_kernel_kallsyms, B_guest_kernel_kallsyms,
     B_vdso32, B_vdsox32, B_vdso, B_vsyscall, B_bracket,
     <<47, 108, 105, 98, 47>>,          \* b"/lib/"
     <<115, 116, 97, 99, 107>>,         \* b"stack"
     <<47, 118, 100, 115, 111>>,        \* b"/vdso"
     <<91, 195, 169>>,                  \* b"[" and U+00E9 in two bytes
     <<226, 130>>}                      \* the first two bytes of a three-byte sequence

PathTails == {<<>>, B_ko}

Paths == {h \o b \o t : h \in PathHeads, b \in SeqsUpTo(PathBytes, MaxBody), t \in PathTails}

\* every cpumode, with and without a flag bit above the cpumode mask
Miscs == {c + h : c \in 0..PERF_RECORD_MISC_CPUMODE_MASK, h \in {0, 8192}}

InitDetect ==
    /\ DefaultBuild /\ ParseIdle /\ GetIdle /\ EtwIdle
    /\ op = "detect" /\ pc = "call"
    /\ path \in Paths
    /\ pmisc \in Miscs
    /\ key = NotRun
    /\ nameKey = NotRun

DetectCall ==
    /\ op = "detect" /\ pc = "call"
    /\ key' = Ret(Detect(path, pmisc))
    /\ pc' = "done"
    /\ UNCHANGED <<buildVars, parseVars, getVars, etwVars, path, pmisc, nameKey>>

\* DsoKey::detect(k.name().as_bytes(), misc) for the key k the first call returned
DetectNameCall ==
    /\ op = "detect" /\ pc = "done"
    /\ key.val # None
    /\ nameKey' = Ret(Detect(AsBytes(Name(key.val[1])), pmisc))
    /\ pc' = "named"
    /\ UNCHANGED <<buildVars, parseVars, getVars, etwVars, path, pmisc, key>>

NextDetect == DetectCall \/ DetectNameCall

SpecDetect == InitDetect /\ [][NextDetect]_vars

\* ------------------------------------------------ DsoKey::detect: the claims

Detected == op = "detect" /\ pc = "done"
Cpumode == BitAnd(pmisc, PERF_RECORD_MISC_CPUMODE_MASK)
KernelMode == Cpumode = PERF_RECORD_MISC_KERNEL \/ Cpumode = PERF_RECORD_MISC_GUEST_KERNEL

\* the path is matched by one of the rules 1 to 4 of detect: the names that are no
\* DSO, the two kallsyms prefixes, and the vDSO and vsyscall names
MatchedByRules1To4 ==
    \/ path \in {B_anon, B_stack, B_heap, B_vvar}
    \/ StartsWith(path, B_kernel_kallsyms)
    \/ StartsWith(path, B_guest_kernel_kallsyms)
    \/ path \in {B_vdso32, B_vdsox32, B_vdso, B_vsyscall}

\* C8: detect returns none for //anon, [stack], [heap] and [vvar], whatever misc is,
\* the kernel and guest-kernel cpumodes included.
C8_NotDsoIsNone ==
    (Detected /\ path \in {B_anon, B_stack, B_heap, B_vvar}) => key = Ret(None)

\* C8 witness: [vvar] in kernel mode, where the bracket-prefix rule would match.
C8_Witness ==
    /\ Detected /\ path = B_vvar /\ Cpumode = PERF_RECORD_MISC_KERNEL
    /\ key = Ret(None)

\* C9: a path that starts with [kernel.kallsyms] gives GuestKernel when the cpumode
\* is GUEST_KERNEL and Kernel for every other cpumode.
C9_KallsymsKey ==
    (Detected /\ StartsWith(path, B_kernel_kallsyms)) =>
        /\ Cpumode = PERF_RECORD_MISC_GUEST_KERNEL => key = Ret(Some(GuestKernel))
        /\ Cpumode # PERF_RECORD_MISC_GUEST_KERNEL => key = Ret(Some(Kernel))

\* C9 witness: [kernel.kallsyms] with a suffix, in user mode, gives Kernel.
C9_Witness ==
    /\ Detected /\ StartsWith(path, B_kernel_kallsyms) /\ Len(path) > Len(B_kernel_kallsyms)
    /\ Cpumode = PERF_RECORD_MISC_USER
    /\ key = Ret(Some(Kernel))

\* C10: in kernel or guest-kernel mode a path that starts with '[' and that rules
\* 1 to 4 do not match gives KernelModule of the whole path, as lossy UTF-8 (the
\* path itself when it is ASCII), also when it holds a '/' or ends with ".ko".
C10_BracketBeforeFilename ==
    (Detected /\ KernelMode /\ StartsWith(path, B_bracket) /\ ~MatchedByRules1To4) =>
        /\ key = Ret(Some(KernelModule(FromUtf8Lossy(path))))
        /\ (\A i \in 1..Len(path) : path[i] < 128) => key.val[1].name = path

\* C10 witness: a bracket path with a '/' in it that ends with ".ko".
C10_Witness ==
    /\ Detected /\ KernelMode /\ StartsWith(path, B_bracket) /\ ~MatchedByRules1To4
    /\ RPosition(path, 47) # 0
    /\ StripSuffix(path, B_ko) # None
    /\ key.val # None /\ key.val[1].tag = "KernelModule"

\* the path is matched by none of the rules 1 to 5 of detect
PastRule5 == ~MatchedByRules1To4 /\ ~(KernelMode /\ StartsWith(path, B_bracket))

\* the bytes of the path after its last '/', the whole path when it has none
AfterLastSlash ==
    CHOOSE f \in {SubSeq(path, i, Len(path)) : i \in 1..(Len(path) + 1)} :
        /\ \A j \in 1..Len(f) : f[j] # 47
        /\ Len(f) < Len(path) => path[Len(path) - Len(f)] = 47

EndsWithKo ==
    /\ Len(AfterLastSlash) >= 3
    /\ SubSeq(AfterLastSlash, Len(AfterLastSlash) - 2, Len(AfterLastSlash)) = B_ko

\* the file name without its last three bytes
KoStem == SubSeq(AfterLastSlash, 1, Len(AfterLastSlash) - 3)

IsAscii(bs) == \A i \in 1..Len(bs) : bs[i] < 128

\* C11: in kernel or guest-kernel mode a path past rules 1 to 5 whose file name
\* ends with ".ko" gives KernelModule of '[', the file name without ".ko" as lossy
\* UTF-8 (its own bytes when it is ASCII), and ']': the directory part is dropped.
C11_KoModuleName ==
    (Detected /\ KernelMode /\ PastRule5 /\ EndsWithKo) =>
        /\ key = Ret(Some(KernelModule(<<91>> \o FromUtf8Lossy(KoStem) \o <<93>>)))
        /\ IsAscii(KoStem) => key.val[1].name = <<91>> \o KoStem \o <<93>>

\* C11 witness: a ".ko" file below a directory, in guest-kernel mode, named by its
\* file name alone.
C11_Witness ==
    /\ Detected /\ Cpumode = PERF_RECORD_MISC_GUEST_KERNEL /\ PastRule5 /\ EndsWithKo
    /\ Len(AfterLastSlash) < Len(path)
    /\ KoStem = <<97>>
    /\ key = Ret(Some(KernelModule(<<91, 97, 93>>)))

\* C12: a path past rules 1 to 5 that is no ".ko" file in kernel or guest-kernel
\* mode is keyed by the cpumode alone: KERNEL gives Kernel, GUEST_KERNEL gives
\* GuestKernel, USER and GUEST_USER give User of the file name as lossy UTF-8 and
\* the full path bytes, every other cpumode gives none.
C12_ByCpumodeAlone ==
    (Detected /\ PastRule5 /\ ~(KernelMode /\ EndsWithKo)) =>
        /\ Cpumode = PERF_RECORD_MISC_KERNEL => key = Ret(Some(Kernel))
        /\ Cpumode = PERF_RECORD_MISC_GUEST_KERNEL => key = Ret(Some(GuestKernel))
        /\ Cpumode \in {PERF_RECORD_MISC_USER, PERF_RECORD_MISC_GUEST_USER} =>
               key = Ret(Some(User(FromUtf8Lossy(AfterLastSlash), path)))
        /\ Cpumode \notin {PERF_RECORD_MISC_KERNEL, PERF_RECORD_MISC_GUEST_KERNEL,
                           PERF_RECORD_MISC_USER, PERF_RECORD_MISC_GUEST_USER} =>
               key = Ret(None)

\* C12 witness: a ".ko" file below a directory in guest-user mode is a User key
\* that keeps the full path.
C12_Witness ==
    /\ Detected /\ Cpumode = PERF_RECORD_MISC_GUEST_USER /\ PastRule5 /\ EndsWithKo
    /\ Len(AfterLastSlash) < Len(path)
    /\ key = Ret(Some(User(FromUtf8Lossy(AfterLastSlash), path)))

\* the name was classified again
DetectedName == op = "detect" /\ pc = "named"

\* the bytes of the name of the key
KeyNameBytes == AsBytes(Name(key.val[1]))

\* the name is one that the rules 1 to 4 of detect match
ReservedName ==
    \/ KeyNameBytes \in {B_anon, B_stack, B_heap, B_vvar}
    \/ StartsWith(KeyNameBytes, B_kernel_kallsyms)
    \/ StartsWith(KeyNameBytes, B_guest_kernel_kallsyms)
    \/ KeyNameBytes \in {B_vdso32, B_vdsox32, B_vdso, B_vsyscall}

\* C20 as stated: the name of every key that is no User key is classified, with
\* the same misc, as that key.
C20_NameRoundTrip ==
    (DetectedName /\ key.val[1].tag # "User") => nameKey = key

\* C20 amended: the same for Kernel, GuestKernel, the vDSO and vsyscall keys, and
\* for the KernelModule keys whose name is not one that rules 1 to 4 match.
C20_UnreservedNameRoundTrip ==
    (/\ DetectedName /\ key.val[1].tag # "User"
     /\ key.val[1].tag = "KernelModule" => ~ReservedName) => nameKey = key

\* C20 witness: a ".ko" file with a byte that is no UTF-8 gives a KernelModule
\* whose name, three bytes longer than the file's stem, gives the same key.
C20_Witness ==
    /\ DetectedName /\ ~StartsWith(path, B_bracket) /\ EndsWithKo
    /\ key.val[1].tag = "KernelModule"
    /\ ~IsAscii(KoStem)
    /\ Len(KeyNameBytes) > Len(KoStem) + 2
    /\ nameKey = key

\* ---------------------------------------------------- calls of Regs::get

\* the mask bits the masks of the model are made of
MaskBits == {0, 1, 2, 63}

\* a register view of n words whose bytes are all distinct
RegsView(n) == [off |-> 0, bytes |-> [i \in 1..(8 * n) |-> i]]

InitGet ==
    /\ ParseIdle /\ DetectIdle /\ EtwIdle
    /\ op = "get" /\ pc = "call"
    /\ overflowChecks \in BOOLEAN
    /\ endian \in {"LE", "BE"}
    /\ getPolicy = "empty"
    /\ \E mask \in SUBSET MaskBits, n \in 0..MaxRegsCount :
           regs = [regs_mask |-> mask, raw_regs |-> RegsView(n)]
    /\ register \in 0..MaxRegister
    /\ got = NotRun

GetCall ==
    /\ op = "get" /\ pc = "call"
    /\ got' = RegsGet(regs, register, overflowChecks, endian)
    /\ pc' = "done"
    /\ UNCHANGED <<buildVars, parseVars, detectVars, etwVars, regs, register>>

NextGet == GetCall

SpecGet == InitGet /\ [][NextGet]_vars

\* ------------------------------------------------------ Regs::get: the claim

GetDone == op = "get" /\ pc = "done"

\* the number of set bits of the mask strictly below the register
BitsBelow == Cardinality({b \in regs.regs_mask : b < register})

\* the word at position p of RegsView(n), as the digits of its value
WordAt(p) == [i \in 1..8 |-> IF endian = "LE" THEN 8 * p + 9 - i ELSE 8 * p + i]

\* C2 as stated: for any mask and any register index, a set bit gives the word at
\* the position that is the number of set bits below it, a clear bit gives absent.
\* No mask has a bit 64 or above, so such a register's bit is clear.
C2_AnyRegister ==
    GetDone =>
        /\ (register \in regs.regs_mask /\ 8 * BitsBelow + 8 <= Len(regs.raw_regs.bytes))
               => got = Ret(Some(WordAt(BitsBelow)))
        /\ register \notin regs.regs_mask => got = Ret(None)

\* C2 amended: the same for every register index in 0..63, the bit positions of
\* the mask.
C2_RegisterBelow64 ==
    (GetDone /\ register < U64Bits) =>
        /\ (register \in regs.regs_mask /\ 8 * BitsBelow + 8 <= Len(regs.raw_regs.bytes))
               => got = Ret(Some(WordAt(BitsBelow)))
        /\ register \notin regs.regs_mask => got = Ret(None)

\* C2 witness: register 63 of a mask with two bits below it gives the third word.
C2_Witness ==
    /\ GetDone /\ register = 63 /\ regs.regs_mask = {0, 2, 63}
    /\ got = Ret(Some(WordAt(2)))

\* ----------------------------------------- the ETW schema: TraceEventInfoRaw

\* The layouts are those of the Windows bindings the file imports (Etw::*):
\* TRACE_EVENT_INFO is 136 bytes, of which the last 24 are the one-element
\* EventPropertyInfoArray; all fields are little-endian.

\* std::mem::size_of::<TraceEventInfo>()
TraceEventInfoSize == 136

\* std::mem::size_of::<EventPropertyInfo>()
EventPropertyInfoSize == 24

\* the offsets of TRACE_EVENT_INFO.PropertyCount, of EVENT_PROPERTY_INFO.NameOffset
\* and of EVENT_PROPERTY_INFO.Anonymous1.nonStructType.MapNameOffset
PropertyCountField == 100
NameOffsetField == 4
MapNameOffsetField == 12

\* the offsets of EVENT_MAP_INFO.Flag, EntryCount, MapEntryValueType and
\* MapEntryArray, the size of an EVENT_MAP_ENTRY and the offset of its Value
\* (its OutputOffset is its first field)
MapFlagField == 4
EntryCountField == 8
MapEntryValueTypeField == 12
MapEntryArrayField == 16
EventMapEntrySize == 8
EntryValueField == 4

ERROR_INSUFFICIENT_BUFFER == 122
EVENTMAP_INFO_FLAG_MANIFEST_VALUEMAP == 1
EVENTMAP_INFO_FLAG_MANIFEST_BITMAP == 2
EVENTMAP_ENTRY_VALUETYPE_ULONG == 0

\* a panic, an assertion failure or a fault, and where it happened
Abort(why) == [tag |-> "Panic", at |-> why]

\* a u32 field of a buffer, as a number; a value of 2^24 or more reads as Huge
U32At(buf, off) == ToCount(FromBytes(SubSeq(buf, off + 1, off + 4), "LE"))

\* property_count(): TraceEventInfo::from(self).PropertyCount
PropertyCount == U32At(info, PropertyCountField)

\* index * size_of::<EventPropertyInfo>()
\*     + (size_of::<TraceEventInfo>() - size_of::<EventPropertyInfo>())
CurrPropOffset_FromHeaderEnd(i) == i * EventPropertyInfoSize + TraceEventInfoSize
CurrPropOffset(i) ==
    i * EventPropertyInfoSize + (TraceEventInfoSize - EventPropertyInfoSize)

\* assert!(index <= self.property_count())
IndexAccepted_Always(i) == TRUE
IndexAccepted(i) == i <= PropertyCount

\* EventPropertyInfo::from(&self.info[off..]): the 24 bytes at off, copied through
\* a raw pointer. Where fewer than 24 bytes are left the copy runs past the
\* buffer, which is undefined: it faults, or it takes what memory holds there.
ReadDescriptor(off) ==
    LET left == Len(info) - off
        past == [i \in 1..(EventPropertyInfoSize - left) |->
                     IF os.beyond = "zeros" THEN 0 ELSE 255]
    IN  IF left >= EventPropertyInfoSize
        THEN [ok |-> TRUE, bytes |-> SubSeq(info, off + 1, off + EventPropertyInfoSize)]
        ELSE IF os.beyond = "fault" THEN [ok |-> FALSE, bytes |-> <<>>]
        ELSE [ok |-> TRUE, bytes |-> SubSeq(info, off + 1, Len(info)) \o past]

\* the UTF-16 code units of buf from off up to a NUL or the end of buf
RECURSIVE UnitsFrom(_, _)
UnitsFrom(buf, off) ==
    IF off + 2 > Len(buf) THEN <<>>
    ELSE LET unit == buf[off + 1] + 256 * buf[off + 2]
         IN  IF unit = 0 THEN <<>> ELSE <<unit>> \o UnitsFrom(buf, off + 2)

\* the code points of UTF-16 units: a surrogate pair is one code point, a lone
\* surrogate is U+FFFD
RECURSIVE Utf16Lossy(_)
Utf16Lossy(units) ==
    IF units = <<>> THEN <<>>
    ELSE LET u == Head(units)
             rest == Tail(units)
         IN  IF u < 55296 \/ u > 57343 THEN <<u>> \o Utf16Lossy(rest)
             ELSE IF /\ u < 56320 /\ rest # <<>>
                     /\ Head(rest) >= 56320 /\ Head(rest) <= 57343
             THEN <<65536 + (u - 55296) * 1024 + (Head(rest) - 56320)>>
                  \o Utf16Lossy(Tail(rest))
             ELSE <<65533>> \o Utf16Lossy(rest)

\* utils::parse_unk_size_null_utf16_string(&buf[off..])
ParseUtf16(buf, off) == Utf16Lossy(UnitsFrom(buf, off))

\* vec![0; buffer_size as usize]: the size of the buffer of the second query
AllocSize_OneShort(buffer_size) == IF buffer_size = 0 THEN 0 ELSE buffer_size - 1
AllocSize(buffer_size) == buffer_size

\* TdhGetEventMapInformation with a null buffer: the status, and the size the
\* OS stores in buffer_size
Probe == [status |-> os.probe, buffer_size |-> Len(os.map)]

\* TdhGetEventMapInformation with a buffer of `size` bytes: the status, and the
\* buffer as the OS leaves it; a buffer too small for the map is refused
Query(size) ==
    IF size < Len(os.map)
    THEN [status |-> ERROR_INSUFFICIENT_BUFFER, buffer |-> [i \in 1..size |-> 0]]
    ELSE [status |-> os.status,
          buffer |-> os.map \o [i \in 1..(size - Len(os.map)) |-> 0]]

\* map.insert(value, name)
Insert(map, value, name) ==
    [v \in DOMAIN map \cup {value} |-> IF v = value THEN name ELSE map[v]]

\* the loop over the entries k..n-1 of the map in the buffer: the FastHashMap;
\* ok is FALSE when the slice at an OutputOffset panicked
RECURSIVE InsertEntries(_, _, _, _)
InsertEntries(buffer, k, n, map) ==
    IF k >= n THEN [ok |-> TRUE, map |-> map]
    ELSE LET at == MapEntryArrayField + k * EventMapEntrySize
             outputOffset == U32At(buffer, at)
             value == FromBytes(SubSeq(buffer, at + EntryValueField + 1,
                                       at + EntryValueField + 4), "LE")
         IN  IF outputOffset > Len(buffer) THEN [ok |-> FALSE, map |-> map]
             ELSE InsertEntries(buffer, k + 1, n,
                                Insert(map, value, ParseUtf16(buffer, outputOffset)))

\* the flag is one of the two that property_map_info supports
Supported_ValueMapOnly(flag) == flag = EVENTMAP_INFO_FLAG_MANIFEST_VALUEMAP
Supported(flag) ==
    \/ flag = EVENTMAP_INFO_FLAG_MANIFEST_VALUEMAP
    \/ flag = EVENTMAP_INFO_FLAG_MANIFEST_BITMAP

\* property_map_info from the EVENT_MAP_INFO in the buffer on
MapInfoOf(buffer) ==
    LET flag == U32At(buffer, MapFlagField)
        built == InsertEntries(buffer, 0, U32At(buffer, EntryCountField), <<>>)
    IN  IF ~Supported(flag) THEN Ret(None)
        ELSE IF U32At(buffer, MapEntryValueTypeField) # EVENTMAP_ENTRY_VALUETYPE_ULONG
        THEN Abort("value type assertion")
        ELSE IF ~built.ok THEN Abort("slice index")
        ELSE Ret(Some([is_bitmap |-> flag = EVENTMAP_INFO_FLAG_MANIFEST_BITMAP,
                       map |-> built.map]))

\* what a call logs: the read of a descriptor, and a query of the OS with its
\* buffer (None for the null pointer, Some(size) for an allocated buffer)
DescriptorRead(by, off) == [by |-> by, what |-> "descriptor", at |-> off]
OsQuery(buffer) == [by |-> "property_map_info", what |-> "query", buffer |-> buffer]

\* property_map_info from the first TdhGetEventMapInformation on
ResolveMap ==
    LET probed == Probe
        size == AllocSize(probed.buffer_size)
        queried == Query(size)
    IN  IF probed.status # ERROR_INSUFFICIENT_BUFFER
        THEN [out |-> Abort("probe"), trace |-> <<OsQuery(None)>>]
        ELSE [out |-> IF queried.status # 0 THEN Abort("query")
                      ELSE MapInfoOf(queried.buffer),
              trace |-> <<OsQuery(None), OsQuery(Some(size))>>]

\* TraceEventInfoRaw::property_map_info(index): what it returns and what it logs
PropertyMapInfo(i) ==
    LET off == CurrPropOffset(i)
        curr_prop == ReadDescriptor(off)
        read == <<DescriptorRead("property_map_info", off)>>
        mapNameOffset == U32At(curr_prop.bytes, MapNameOffsetField)
        resolved == ResolveMap
    IN  IF ~IndexAccepted(i) THEN [out |-> Abort("index assertion"), trace |-> <<>>]
        ELSE IF off > Len(info) THEN [out |-> Abort("slice index"), trace |-> <<>>]
        ELSE IF ~curr_prop.ok THEN [out |-> Abort("fault"), trace |-> read]
        ELSE IF mapNameOffset = 0 THEN [out |-> Ret(None), trace |-> read]
        ELSE IF mapNameOffset > Len(info)
        THEN [out |-> Abort("slice index"), trace |-> read]
        ELSE [out |-> resolved.out, trace |-> read \o resolved.trace]

\* Property::new(name, &curr_prop, map_info)
PropertyNew(name, curr_prop, map_info) ==
    [name |-> name, info |-> curr_prop, map_info |-> map_info]

\* TraceEventInfoRaw::property(index): what it returns and what it logs
Property(i) ==
    LET off == CurrPropOffset(i)
        curr_prop == ReadDescriptor(off)
        read == <<DescriptorRead("property", off)>>
        nameOffset == U32At(curr_prop.bytes, NameOffsetField)
        map_info == PropertyMapInfo(i)
    IN  IF ~IndexAccepted(i) THEN [out |-> Abort("index assertion"), trace |-> <<>>]
        ELSE IF off > Len(info) THEN [out |-> Abort("slice index"), trace |-> <<>>]
        ELSE IF ~curr_prop.ok THEN [out |-> Abort("fault"), trace |-> read]
        ELSE IF nameOffset > Len(info)
        THEN [out |-> Abort("slice index"), trace |-> read]
        ELSE [out |-> IF map_info.out.tag = "Panic" THEN map_info.out
                      ELSE Ret(PropertyNew(ParseUtf16(info, nameOffset),
                                           curr_prop.bytes, map_info.out.val)),
              trace |-> read \o map_info.trace]

\* ------------------------------------------- the writer of the ETW buffers

\* a NUL-terminated UTF-16 string of code units below 256
Utf16Bytes(units) == [k \in 1..(2 * Len(units) + 2) |->
                         IF k % 2 = 1 /\ k < 2 * Len(units) THEN units[(k + 1) \div 2] ELSE 0]

RECURSIVE Flatten(_)
Flatten(seqs) == IF seqs = <<>> THEN <<>> ELSE Head(seqs) \o Flatten(Tail(seqs))

\* the EVENT_PROPERTY_INFO of property i: Flags, NameOffset, InType, OutType,
\* MapNameOffset, count, length, Reserved
EtwDescriptor(i, nameOffset, mapNameOffset) ==
    U32(0, "LE") \o U32(nameOffset, "LE") \o <<i + 1, 0, 0, 0>>
    \o U32(mapNameOffset, "LE") \o <<1, 0, 0, 0>> \o U32(0, "LE")

B_MyProvider == <<77, 121, 80, 114, 111, 118, 105, 100, 101, 114>>   \* "MyProvider"

\* A TRACE_EVENT_INFO of `count` properties: the header, the descriptors, then
\* the strings: the map name "M", the property names "P", "Q", ... and, in a long
\* pool, the provider name. The properties in `mapped` have the map name.
EtwInfo(count, mapped, pool) ==
    LET stringsAt == TraceEventInfoSize - EventPropertyInfoSize
                     + count * EventPropertyInfoSize
        nameAt(i) == stringsAt + 4 + 4 * i
    IN  [k \in 1..PropertyCountField |-> 0] \o U32(count, "LE") \o [k \in 1..8 |-> 0]
        \o Flatten([i \in 1..count |->
                       EtwDescriptor(i - 1, nameAt(i - 1),
                                     IF (i - 1) \in mapped THEN stringsAt ELSE 0)])
        \o Utf16Bytes(<<77>>)
        \o Flatten([i \in 1..count |-> Utf16Bytes(<<79 + i>>)])
        \o (IF pool = "long" THEN Utf16Bytes(B_MyProvider) ELSE <<>>)

\* the bytes of the strings of the entries before entry k
RECURSIVE NamesBefore(_, _)
NamesBefore(entries, k) ==
    IF k <= 1 THEN 0
    ELSE 2 * Len(entries[k - 1].name) + 2 + NamesBefore(entries, k - 1)

\* An EVENT_MAP_INFO: NameOffset, Flag, EntryCount, MapEntryValueType, the
\* entries (OutputOffset, Value), then the map name and the strings of the entries.
MapBytes(flag, valueType, entries) ==
    LET n == Len(entries)
        nameAt == MapEntryArrayField + n * EventMapEntrySize
    IN  U32(nameAt, "LE") \o U32(flag, "LE") \o U32(n, "LE") \o U32(valueType, "LE")
        \o Flatten([k \in 1..n |->
                       U32(nameAt + 4 + NamesBefore(entries, k), "LE")
                       \o U32(entries[k].value, "LE")])
        \o Utf16Bytes(<<77>>)
        \o Flatten([k \in 1..n |-> Utf16Bytes(entries[k].name)])

\* the entries of the maps: 1 -> "A", 1 -> "B" and 2 -> ""
EntryChoices ==
    {[value |-> 1, name |-> <<65>>], [value |-> 1, name |-> <<66>>],
     [value |-> 2, name |-> <<>>]}

\* VALUEMAP, BITMAP and PATTERNMAP maps of ULONG entries, and one map of each
\* flag whose entry value type is STRING
Maps ==
    {MapBytes(flag, EVENTMAP_ENTRY_VALUETYPE_ULONG, entries) :
         flag \in {1, 2, 4}, entries \in SeqsUpTo(EntryChoices, MaxEntries)}
    \cup {MapBytes(flag, 1, <<[value |-> 1, name |-> <<65>>]>>) : flag \in {1, 2, 4}}

\* What the OS answers and what follows the buffer in memory. A probe that is
\* answered with another status than ERROR_INSUFFICIENT_BUFFER (success, or
\* ERROR_NOT_FOUND), a query that fails, and a query that succeeds with a map.
OsAnswers(queries, overruns) ==
    LET beyonds == IF overruns THEN {"zeros", "ones", "fault"} ELSE {"fault"}
        answers ==
            IF ~queries THEN {[probe |-> 0, status |-> 0, map |-> <<>>]}
            ELSE {[probe |-> p, status |-> 0, map |-> MapBytes(1, 0, <<>>)] :
                      p \in {0, 1168}}
                 \cup {[probe |-> ERROR_INSUFFICIENT_BUFFER, status |-> st,
                        map |-> MapBytes(1, 0, <<>>)] : st \in {ERROR_INSUFFICIENT_BUFFER, 1168}}
                 \cup {[probe |-> ERROR_INSUFFICIENT_BUFFER, status |-> 0, map |-> m] :
                          m \in Maps}
    IN  {[probe |-> a.probe, status |-> a.status, map |-> a.map, beyond |-> b] :
            a \in answers, b \in beyonds}

\* ------------------------- calls of property and of property_map_info

InitEtw ==
    /\ DefaultBuild /\ ParseIdle /\ GetIdle /\ DetectIdle
    /\ op \in {"property", "map_info"} /\ pc = "call"
    /\ \E count \in 0..MaxProps, pool \in {"long", "short"},
          mapped \in {{}, {0}, 0..(MaxProps - 1)} :
           /\ pool = "short" => count >= 1
           /\ mapped \subseteq 0..(count - 1)
           /\ info = EtwInfo(count, mapped, pool)
           /\ propIndex \in 0..(count + 1)
           /\ os \in OsAnswers(propIndex \in mapped \/ propIndex = count,
                               pool = "short" /\ propIndex = count)
    /\ prop = NotRun
    /\ trace = <<>>

PropertyCall ==
    /\ op = "property" /\ pc = "call"
    /\ LET r == Property(propIndex)
       IN  prop' = r.out /\ trace' = r.trace
    /\ pc' = "done"
    /\ UNCHANGED <<buildVars, parseVars, getVars, detectVars, info, propIndex, os>>

PropertyMapInfoCall ==
    /\ op = "map_info" /\ pc = "call"
    /\ LET r == PropertyMapInfo(propIndex)
       IN  prop' = r.out /\ trace' = r.trace
    /\ pc' = "done"
    /\ UNCHANGED <<buildVars, parseVars, getVars, detectVars, info, propIndex, os>>

NextEtw == PropertyCall \/ PropertyMapInfoCall

SpecEtw == InitEtw /\ [][NextEtw]_vars

\* ------------------------ property and property_map_info: the claims

EtwDone == op \in {"property", "map_info"} /\ pc = "done"

\* where the trailing array of descriptors starts: the header without its
\* one-element array
ArrayStart == TraceEventInfoSize - EventPropertyInfoSize

IsDescriptorRead(e) == e.what = "descriptor"
IsQuery(e) == e.what = "query"
DescriptorReads == SelectSeq(trace, IsDescriptorRead)
Queries == SelectSeq(trace, IsQuery)

\* C14: property(i) reads its descriptor at (header size - descriptor size) +
\* i * descriptor size, so that consecutive indices are one descriptor size apart
\* and property(i) of a buffer of more than i properties returns the i-th
\* descriptor and its name; property_map_info(i) reads at the same offset.
C14_DescriptorOffset ==
    EtwDone =>
        /\ \A k \in 1..Len(DescriptorReads) :
               DescriptorReads[k].at = ArrayStart + propIndex * EventPropertyInfoSize
        /\ (op = "property" /\ Len(DescriptorReads) = 2) =>
               /\ DescriptorReads[1].by = "property"
               /\ DescriptorReads[2].by = "property_map_info"
        /\ (op = "property" /\ propIndex < PropertyCount /\ prop.tag = "Ret") =>
               /\ prop.val.info[9] = propIndex + 1
               /\ prop.val.name = <<80 + propIndex>>

\* C14 witness: property(1) of two properties reads twice at 136, one descriptor
\* size after the 112 of property(0), and returns the property named "Q".
C14_Witness ==
    /\ EtwDone /\ op = "property" /\ propIndex = 1 /\ PropertyCount = 2
    /\ Len(DescriptorReads) = 2
    /\ DescriptorReads[1].at = 136 /\ DescriptorReads[2].at = 136
    /\ prop.tag = "Ret" /\ prop.val.name = <<81>>

\* C15: property(index) and property_map_info(index) with index > property_count
\* stop at the assertion: no descriptor is read and the OS is not queried (of the
\* buffer only the PropertyCount of the header, which the assertion compares, was
\* read).
C15_AssertionFirst ==
    (EtwDone /\ propIndex > PropertyCount) =>
        /\ prop = Abort("index assertion")
        /\ trace = <<>>

\* C15 witness: property_map_info(2) of one property, which has a map.
C15_Witness ==
    /\ EtwDone /\ op = "map_info" /\ PropertyCount = 1 /\ propIndex = 2
    /\ U32At(info, ArrayStart + MapNameOffsetField) # 0
    /\ prop = Abort("index assertion") /\ trace = <<>>

\* the call is property(i) for one of the property_count properties
PropertyOfArray == EtwDone /\ op = "property" /\ propIndex < PropertyCount

\* the MapNameOffset of the descriptor of the property
MapNameOffsetOf ==
    U32At(info, ArrayStart + propIndex * EventPropertyInfoSize + MapNameOffsetField)

\* both queries of the OS succeeded: the map is resolved
Resolved == os.probe = ERROR_INSUFFICIENT_BUFFER /\ os.status = 0

\* the flag, the entry value type and the entries of the map the OS returns
MapFlag == U32At(os.map, MapFlagField)
MapValueType == U32At(os.map, MapEntryValueTypeField)
MapEntryCount == U32At(os.map, EntryCountField)
MapEntryAt(k) == MapEntryArrayField + (k - 1) * EventMapEntrySize
MapEntryValue(k) == FromBytes(SubSeq(os.map, MapEntryAt(k) + 5, MapEntryAt(k) + 8), "LE")
MapEntryName(k) == ParseUtf16(os.map, U32At(os.map, MapEntryAt(k)))
FlagIsValueOrBitmap ==
    MapFlag \in {EVENTMAP_INFO_FLAG_MANIFEST_VALUEMAP, EVENTMAP_INFO_FLAG_MANIFEST_BITMAP}

\* the parts of C16 that hold as stated: no map and no query for MapNameOffset 0,
\* a property without a map for a resolved map of another flag
C16_NoMapCases ==
    /\ MapNameOffsetOf = 0 =>
           /\ prop.tag = "Ret" /\ prop.val.map_info = None
           /\ Queries = <<>>
    /\ (MapNameOffsetOf # 0 /\ Resolved /\ ~FlagIsValueOrBitmap) =>
           /\ prop.tag = "Ret" /\ prop.val.map_info = None

C17_TwoPhaseProtocol ==
    (EtwDone /\ Queries # <<>>) =>
        /\ Len(Queries) <= 2
        /\ Queries[1].buffer = None
        /\ os.probe # ERROR_INSUFFICIENT_BUFFER =>
               /\ Len(Queries) = 1
               /\ prop = Abort("probe")
        /\ os.probe = ERROR_INSUFFICIENT_BUFFER =>
               /\ Len(Queries) = 2
               /\ Queries[2].buffer = Some(Len(os.map))
               /\ os.status # 0 => prop = Abort("query")

\* C17 witness: the probe is answered as expected and the second query fails.
C17_Witness ==
    /\ EtwDone /\ op = "property" /\ Len(Queries) = 2
    /\ os.probe = ERROR_INSUFFICIENT_BUFFER /\ os.status # 0
    /\ Queries[1].buffer = None /\ Queries[2].buffer = Some(Len(os.map))
    /\ prop = Abort("query")

\* C18: a call that passes the assertion reads one of the property_count
\* descriptors: no descriptor read is at or after the end of the array, also for
\* index = property_count and for property_count = 0.
C18_AcceptedIndexInArray ==
    EtwDone =>
        \A k \in 1..Len(DescriptorReads) :
            DescriptorReads[k].at < ArrayStart + PropertyCount * EventPropertyInfoSize

====
